---------------------------- MODULE Spec2Model ----------------------------
(***************************************************************************)
(* Model of the chat-driven Docker control bot (src/bot.py, class          *)
(* DockerBot): the add-server wizard, the registry of remote servers, the  *)
(* callback-token dispatcher and the remote command calls.                 *)
(*                                                                         *)
(* Python strings are TLA+ strings; they are taken apart character by      *)
(* character with SubSeq, so that startswith, replace, split, isdigit, int *)
(* and strip are computed the way the interpreter computes them.           *)
(*                                                                         *)
(* The application is built without concurrent_updates (bot.py:734), so    *)
(* the dispatcher runs one handler at a time to completion, and the SSH    *)
(* calls made inside a handler are synchronous: every handler is one       *)
(* atomic step.                                                            *)
(*                                                                         *)
(* A call to the chat API may raise (telegram.error.TelegramError); the    *)
(* exception leaves the handler at that line and the application logs it.  *)
(* It is modelled at the two calls that are followed by code changing the  *)
(* state: query.answer() (bot.py:165) and the notice sent before the key   *)
(* is installed (bot.py:357).  Everywhere else the call is the last thing  *)
(* the handler does to the state, and out lists the messages the handler   *)
(* issued.                                                                 *)
(***************************************************************************)
EXTENDS Integers, Sequences, FiniteSets, TLC

(***************************************************************************)
(* Python string primitives                                                *)
(***************************************************************************)
Ch(s, i) == SubSeq(s, i, i)

Digits == {"0", "1", "2", "3", "4", "5", "6", "7", "8", "9"}

Whitespace == {" ", "\n", "\t"}

\* str.startswith(p)
StartsWith(s, p) == Len(s) >= Len(p) /\ SubSeq(s, 1, Len(p)) = p

\* s[i:] with a 1-based first position
From(s, i) == SubSeq(s, i, Len(s))

\* str.find(sep), 1-based; 0 when sep does not occur
RECURSIVE FindFrom(_, _, _)
FindFrom(s, sep, i) ==
    IF i + Len(sep) - 1 > Len(s) THEN 0
    ELSE IF SubSeq(s, i, i + Len(sep) - 1) = sep THEN i
    ELSE FindFrom(s, sep, i + 1)

Find(s, sep) == FindFrom(s, sep, 1)

Contains(s, sep) == Find(s, sep) # 0

\* str.replace(old, ""): every non-overlapping occurrence, left to right
RECURSIVE Remove(_, _)
Remove(s, old) ==
    LET i == Find(s, old)
    IN  IF i = 0 THEN s
        ELSE SubSeq(s, 1, i - 1) \o Remove(From(s, i + Len(old)), old)

\* str.split(sep, maxsplit); maxsplit = -1 splits everywhere
RECURSIVE SplitN(_, _, _)
SplitN(s, sep, maxsplit) ==
    LET i == Find(s, sep)
    IN  IF i = 0 \/ maxsplit = 0 THEN <<s>>
        ELSE <<SubSeq(s, 1, i - 1)>>
             \o SplitN(From(s, i + Len(sep)), sep,
                       IF maxsplit < 0 THEN maxsplit ELSE maxsplit - 1)

Split(s, sep) == SplitN(s, sep, -1)

\* sep.join(parts)
RECURSIVE Join(_, _)
Join(parts, sep) ==
    IF Len(parts) = 0 THEN ""
    ELSE IF Len(parts) = 1 THEN parts[1]
    ELSE parts[1] \o sep \o Join(Tail(parts), sep)

\* str.strip()
RECURSIVE LStrip(_)
LStrip(s) == IF Len(s) > 0 /\ Ch(s, 1) \in Whitespace THEN LStrip(From(s, 2)) ELSE s

RECURSIVE RStrip(_)
RStrip(s) ==
    IF Len(s) > 0 /\ Ch(s, Len(s)) \in Whitespace
    THEN RStrip(SubSeq(s, 1, Len(s) - 1)) ELSE s

Strip(s) == RStrip(LStrip(s))

\* str.isdigit(): non-empty and every character a digit
IsDigit(s) == Len(s) > 0 /\ \A i \in 1..Len(s) : Ch(s, i) \in Digits

DigitVal(c) == CHOOSE n \in 0..9 : Ch("0123456789", n + 1) = c

\* the digits-and-underscores body of an int() literal: digits, with single
\* underscores allowed only between two digits
IntBody(s) ==
    /\ Len(s) > 0
    /\ Ch(s, 1) \in Digits
    /\ Ch(s, Len(s)) \in Digits
    /\ \A i \in 1..Len(s) : Ch(s, i) \in Digits \cup {"_"}
    /\ \A i \in 1..(Len(s) - 1) : ~(Ch(s, i) = "_" /\ Ch(s, i + 1) = "_")

RECURSIVE NatVal(_, _)
NatVal(s, acc) ==
    IF Len(s) = 0 THEN acc
    ELSE IF Ch(s, 1) = "_" THEN NatVal(From(s, 2), acc)
    ELSE NatVal(From(s, 2), 10 * acc + DigitVal(Ch(s, 1)))

\* int(s): surrounding whitespace is stripped, one optional sign, then the body;
\* anything else raises ValueError
PyInt(s) ==
    LET t == Strip(s)
        signed == Len(t) > 0 /\ Ch(t, 1) \in {"+", "-"}
        body == IF signed THEN From(t, 2) ELSE t
    IN  IF ~IntBody(body) THEN [ok |-> FALSE, val |-> 0]
        ELSE [ok |-> TRUE,
              val |-> IF signed /\ Ch(t, 1) = "-" THEN 0 - NatVal(body, 0)
                      ELSE NatVal(body, 0)]

\* list[idx]: a negative idx counts from the end; out of range raises IndexError.
\* The result is the 1-based position, 0 for IndexError.
PyIndex(seq, idx) ==
    IF 0 <= idx /\ idx < Len(seq) THEN idx + 1
    ELSE IF idx < 0 /\ 0 - idx <= Len(seq) THEN Len(seq) + idx + 1
    ELSE 0

\* list.pop(position), position 1-based
RemoveAt(seq, p) == SubSeq(seq, 1, p - 1) \o SubSeq(seq, p + 1, Len(seq))

\* str(n) for a small natural number
RECURSIVE Str(_)
Str(n) == IF n < 10 THEN Ch("0123456789", n + 1)
          ELSE Str(n \div 10) \o Ch("0123456789", (n % 10) + 1)

\* the printable ASCII characters with codes 32..95 and 97..126
AsciiLow == " !\"#$%&'(" \o ")*+,-./0123456789:;<=>?@ABCDEFGHIJKLMNOPQRSTUVWXYZ[\\]^_"

AsciiHigh == "abcdefghijklmnopqrstuvwxyz{|}~"

\* ord(c) for a printable ASCII character, 0 for any other
Ord(c) ==
    LET i == Find(AsciiLow, c)
        j == Find(AsciiHigh, c)
    IN  IF i # 0 THEN 31 + i ELSE IF j # 0 THEN 96 + j ELSE 0

\* chr(n) for 32 <= n <= 126, n # 96; the replacement mark for any other byte
Chr(n) ==
    IF 32 <= n /\ n <= 95 THEN Ch(AsciiLow, n - 31)
    ELSE IF 97 <= n /\ n <= 126 THEN Ch(AsciiHigh, n - 96)
    ELSE "?"

\* str.lower()
RECURSIVE Lower(_)
Lower(s) ==
    IF Len(s) = 0 THEN ""
    ELSE LET n == Ord(Ch(s, 1))
         IN  (IF 65 <= n /\ n <= 90 THEN Chr(n + 32) ELSE Ch(s, 1)) \o Lower(From(s, 2))

HexDigits == "0123456789ABCDEF"

\* the value of one hexadecimal digit of either case, -1 for any other character
HexVal(c) ==
    LET i == Find(HexDigits, c)
        j == Find("abcdef", c)
    IN  IF Len(c) # 1 THEN 0 - 1
        ELSE IF i # 0 THEN i - 1 ELSE IF j # 0 THEN j + 9 ELSE 0 - 1

\* characters urllib.parse.quote never encodes
AlwaysSafe(c) ==
    LET n == Ord(c)
    IN  \/ (48 <= n /\ n <= 57) \/ (65 <= n /\ n <= 90) \/ (97 <= n /\ n <= 122)
        \/ c \in {"_", ".", "-", "~"}

\* Quote that leaves the percent sign as it is
RECURSIVE QuoteKeepsPercent(_)
QuoteKeepsPercent(s) ==
    IF Len(s) = 0 THEN ""
    ELSE LET c == Ch(s, 1)
             n == Ord(c)
         IN  (IF AlwaysSafe(c) \/ c = "%" THEN c
              ELSE "%" \o Ch(HexDigits, (n \div 16) + 1) \o Ch(HexDigits, (n % 16) + 1))
             \o QuoteKeepsPercent(From(s, 2))

\* urllib.parse.quote(s, safe='')
RECURSIVE Quote(_)
Quote(s) ==
    IF Len(s) = 0 THEN ""
    ELSE LET c == Ch(s, 1)
             n == Ord(c)
         IN  (IF AlwaysSafe(c) THEN c
              ELSE "%" \o Ch(HexDigits, (n \div 16) + 1) \o Ch(HexDigits, (n % 16) + 1))
             \o Quote(From(s, 2))

\* urllib.parse.unquote(s): every %XY with two hexadecimal digits is decoded,
\* any other '%' is kept as it is
RECURSIVE Unquote(_)
Unquote(s) ==
    IF Len(s) = 0 THEN ""
    ELSE IF Ch(s, 1) = "%" /\ Len(s) >= 3
            /\ HexVal(Ch(s, 2)) >= 0 /\ HexVal(Ch(s, 3)) >= 0
    THEN Chr(16 * HexVal(Ch(s, 2)) + HexVal(Ch(s, 3))) \o Unquote(From(s, 4))
    ELSE Ch(s, 1) \o Unquote(From(s, 2))

(***************************************************************************)
(* Bounds and inputs                                                       *)
(***************************************************************************)
\* operators (chat users) that send events
NumUsers == 2

\* key pairs the wizard may generate before the model stops provisioning
MaxKeys == 2

Users == 1..NumUsers

\* free texts: an operator answers each prompt of the wizard with a value of
\* the kind it asks for (the handler itself does not look at the text), and
\* may type any of them when there is no wizard session
HostTexts == {" 10.0.0.5 "}

UserTexts == {"deploy"}

PasswordTexts == {"secret123"}

Texts == HostTexts \cup UserTexts \cup PasswordTexts

TextsAt(step) ==
    CASE step = "host" -> HostTexts
      [] step = "username" -> UserTexts
      [] step = "password" -> PasswordTexts
      [] OTHER -> Texts

\* SSH_SERVERS_PWD_JSON as parsed at startup: a list of dicts, the second
\* without a password
EnvConfig ==
    << [host |-> "192.168.0.1", username |-> "root", password |-> "envpw1"],
       [host |-> "192.168.0.2", username |-> "ops", password |-> ""],
       [host |-> "192.168.0.3", username |-> "admin", password |-> "envpw3"] >>

\* how ssh.connect / exec_command inside _ssh_copy_id and _ssh_exec can end
SshErrors == {"AuthenticationException", "NetworkError", "Timeout"}

InstallResults == {"Success"} \cup SshErrors

(***************************************************************************)
(* State                                                                   *)
(***************************************************************************)
VARIABLES
    user_states,    \* dict user_id -> {flow, step, temp}       (bot.py:21)
    user_servers,   \* dict user_id -> list of server entries   (bot.py:23)
    env_servers,    \* list of server entries from the env      (bot.py:25)
    nkeys,          \* key pairs generated so far (each RSAKey.generate is fresh)
    authorized_keys,\* host -> content of ~/.ssh/authorized_keys of the account
    allowed_users,  \* user ids of ALLOWED_USERS         (bot_with_compose.py:21)
    last,           \* the update being processed and how its handler ended
    out,            \* messages its handler rendered, in order
    calls           \* remote / engine calls its handler made, in order

vars == <<user_states, user_servers, env_servers, nkeys, authorized_keys,
          allowed_users, last, out, calls>>

registry == <<user_servers, env_servers>>

\* the empty dict
EmptyDict == [k \in {} |-> 0]

\* dict.get(k, [])
DictGetList(d, k) == IF k \in DOMAIN d THEN d[k] ELSE <<>>

\* dict.pop(k, None)
DictPop(d, k) == [j \in DOMAIN d \ {k} |-> d[j]]

\* d[k] = v
DictSet(d, k, v) == [j \in DOMAIN d \cup {k} |-> IF j = k THEN v ELSE d[j]]

\* ServersOf with the lookup not keyed by the sender: an operator without
\* servers gets the list of an operator who has some
ServersOfAnyone(servers_dict, user_id) ==
    IF user_id \in DOMAIN servers_dict THEN servers_dict[user_id]
    ELSE IF DOMAIN servers_dict = {} THEN <<>>
    ELSE servers_dict[CHOOSE v \in DOMAIN servers_dict : TRUE]

\* self.user_servers.get(user_id, []): the list of the operator who sent the
\* update (bot.py:255, 306, 625, 643)
ServersOf(servers_dict, user_id) == DictGetList(servers_dict, user_id)

\* Label that shows the public key of the entry as well
LabelWithKey(srv) == srv.username \o "@" \o srv.host \o " " \o srv.public_key

\* f"{srv['username']}@{srv['host']}"
Label(srv) == srv.username \o "@" \o srv.host

\* _generate_ssh_keypair: the n-th generated pair; RSAKey.generate never repeats
GenerateSshKeypair(n, comment) ==
    [private_key |-> "PRIVATE-KEY-" \o Str(n),
     public_key |-> "ssh-rsa KEY" \o Str(n) \o " " \o comment]

\* a rendered message: which template, the values interpolated into it, and the
\* (label, callback_data) buttons under it
Msg(text, args, buttons) == [text |-> text, args |-> args, buttons |-> buttons]

Button(label, data) == [label |-> label, data |-> data]

\* one remote call: how it authenticated, what it ran, how it ended
Call(host, username, auth, cred, cmd, result) ==
    [host |-> host, username |-> username, auth |-> auth, cred |-> cred,
     cmd |-> cmd, result |-> result]

\* no update is being processed
NoEvent ==
    [kind |-> "idle", user |-> 0, data |-> "", step |-> "none", scrub |-> "none",
     raised |-> ""]

\* the dispatcher is ready for the next update
Idle == last.kind = "idle"

\* the event being handled: its kind, sender and payload, the step the sender's
\* wizard session was at when it arrived ("none" without a session), whether the
\* sender's message was deleted from the chat, and the exception that escaped
\* the handler ("" when it returned)
Event(kind, u, data, raised) ==
    [kind |-> kind, user |-> u, data |-> data,
     step |-> IF u \in DOMAIN user_states THEN user_states[u].step ELSE "none",
     scrub |-> "none", raised |-> raised]

(***************************************************************************)
(* The remote key store: what the commands of _ssh_copy_id do to           *)
(* ~/.ssh/authorized_keys                                                  *)
(***************************************************************************)
\* the lines of a file: each ends at a newline, and what follows the last
\* newline is a line too unless it is empty
FileLines(content) ==
    LET parts == Split(content, "\n")
    IN  IF parts[Len(parts)] = "" THEN SubSeq(parts, 1, Len(parts) - 1) ELSE parts

\* grep -qxF 'key' file: some line of the file is exactly the key
GrepQxF(content, key) ==
    \E i \in 1..Len(FileLines(content)) : FileLines(content)[i] = key

\* echo 'key' >> file: the key and a newline after the last byte of the file
EchoAppend(content, key) == content \o key \o "\n"

\* _ssh_copy_id on an account whose authorized_keys has the given content,
\* every command running to its end: mkdir, chmod and touch leave the content
\* alone, and the last command appends the key unless grep finds it
SshCopyId(content, public_key) ==
    IF GrepQxF(content, public_key) THEN content
    ELSE EchoAppend(content, public_key)

\* the accounts the bot is given: the hosts typed into the wizard and the
\* hosts of the configuration
RemoteHosts ==
    {Strip(t) : t \in HostTexts} \cup {EnvConfig[i].host : i \in 1..Len(EnvConfig)}

\* the key stores after one provisioning attempt that ended as result: a
\* failed ssh.connect runs no command
InstallKey(stores, host, public_key, result) ==
    IF result = "Success"
    THEN [stores EXCEPT ![host] = SshCopyId(@, public_key)]
    ELSE stores

(***************************************************************************)
(* Startup: _load_env_servers and _install_key_for_env                     *)
(***************************************************************************)
\* the entry _install_key_for_env returns for the n-th generated key pair
InstallKeyForEnv(cfg, n) ==
    LET kp == GenerateSshKeypair(n, cfg.username \o "@dockerbot-env")
    IN  [host |-> cfg.host, username |-> cfg.username,
         private_key |-> kp.private_key, public_key |-> kp.public_key]

\* the loop of _load_env_servers over the first n configured entries, results[i]
\* being how _ssh_copy_id ended for entry i: a failed entry is skipped
\* an entry with an empty field is skipped before any key is generated
ValidConfig(cfg) == cfg.host # "" /\ cfg.username # "" /\ cfg.password # ""

\* key pairs generated for the first n configured entries
RECURSIVE EnvKeys(_, _)
EnvKeys(cfgs, n) ==
    IF n = 0 THEN 0
    ELSE EnvKeys(cfgs, n - 1) + (IF ValidConfig(cfgs[n]) THEN 1 ELSE 0)

\* LoadEnvServers that gives up at the first entry whose installation fails
RECURSIVE LoadEnvServersAborting(_, _, _)
LoadEnvServersAborting(cfgs, results, n) ==
    IF n = 0 THEN <<>>
    ELSE LET before == LoadEnvServersAborting(cfgs, results, n - 1)
         IN  IF \E j \in 1..n : ValidConfig(cfgs[j]) /\ results[j] # "Success"
             THEN before
             ELSE IF ValidConfig(cfgs[n])
             THEN Append(before, InstallKeyForEnv(cfgs[n], EnvKeys(cfgs, n)))
             ELSE before

RECURSIVE LoadEnvServers(_, _, _)
LoadEnvServers(cfgs, results, n) ==
    IF n = 0 THEN <<>>
    ELSE LET before == LoadEnvServers(cfgs, results, n - 1)
         IN  IF ValidConfig(cfgs[n]) /\ results[n] = "Success"
             THEN Append(before, InstallKeyForEnv(cfgs[n], EnvKeys(cfgs, n)))
             ELSE before

\* the key stores after the loop of _load_env_servers over the first n
\* configured entries, every account starting without keys
RECURSIVE LoadEnvStores(_, _, _)
LoadEnvStores(cfgs, results, n) ==
    IF n = 0 THEN [h \in RemoteHosts |-> ""]
    ELSE LET before == LoadEnvStores(cfgs, results, n - 1)
         IN  IF ValidConfig(cfgs[n])
             THEN InstallKey(before, cfgs[n].host,
                             InstallKeyForEnv(cfgs[n], EnvKeys(cfgs, n)).public_key,
                             results[n])
             ELSE before

Init ==
    /\ user_states = EmptyDict
    /\ user_servers = EmptyDict
    /\ \E results \in [1..Len(EnvConfig) -> InstallResults] :
          /\ env_servers = LoadEnvServers(EnvConfig, results, Len(EnvConfig))
          /\ authorized_keys = LoadEnvStores(EnvConfig, results, Len(EnvConfig))
    /\ nkeys = EnvKeys(EnvConfig, Len(EnvConfig))
    /\ allowed_users = {}
    /\ last = NoEvent
    /\ out = <<>>
    /\ calls = <<>>

(***************************************************************************)
(* /start and the menus                                                    *)
(***************************************************************************)
MainMenu ==
    Msg("main_menu", <<>>,
        << Button("containers", "list"), Button("stats", "stats"),
           Button("servers", "ssh_menu") >>)

\* handler of the /start command
Start(u) ==
    /\ Idle
    /\ last' = Event("command", u, "start", "")
    /\ out' = <<MainMenu>>
    /\ calls' = <<>>
    /\ UNCHANGED <<user_states, user_servers, env_servers, nkeys, authorized_keys, allowed_users>>

\* MenuRows numbering the User entries after the Environment entries
RECURSIVE MenuRowsGlobalIndex(_, _, _)
MenuRowsGlobalIndex(servers, scope, n) ==
    IF n = 0 THEN <<>>
    ELSE LET label == Label(servers[n])
             shift == IF scope = "user" THEN Len(env_servers) ELSE 0
             id == scope \o "_" \o Str(n - 1 + shift)
         IN  MenuRowsGlobalIndex(servers, scope, n - 1)
             \o << Button(label, "ssh_connect_" \o id),
                   Button("stats: " \o label, "ssh_stats_" \o id) >>
             \o (IF scope = "user"
                 THEN << Button("delete: " \o label, "ssh_delete_" \o id) >>
                 ELSE <<>>)

\* the button rows show_ssh_menu builds for one scope
RECURSIVE MenuRows(_, _, _)
MenuRows(servers, scope, n) ==
    IF n = 0 THEN <<>>
    ELSE LET label == Label(servers[n])
             id == scope \o "_" \o Str(n - 1)
         IN  MenuRows(servers, scope, n - 1)
             \o << Button(label, "ssh_connect_" \o id),
                   Button("stats: " \o label, "ssh_stats_" \o id) >>
             \o (IF scope = "user"
                 THEN << Button("delete: " \o label, "ssh_delete_" \o id) >>
                 ELSE <<>>)

\* the message show_ssh_menu renders for user u, given the registry
SshMenu(servers_of_user, envs) ==
    Msg(IF Len(envs) = 0 /\ Len(servers_of_user) = 0 THEN "ssh_menu_empty"
        ELSE "ssh_menu",
        <<>>,
        MenuRows(envs, "env", Len(envs))
        \o MenuRows(servers_of_user, "user", Len(servers_of_user))
        \o << Button("add server", "ssh_add"), Button("back", "back") >>)

(***************************************************************************)
(* _resolve_server_by_id                                                   *)
(***************************************************************************)
NotResolved == [scope |-> "None", pos |-> 0]

\* ResolveServerById that looks a bare number up among the Environment
\* entries first
ResolveBareInEnv(server_id, servers_of_user, envs) ==
    IF IsDigit(server_id)
    THEN LET e == PyIndex(envs, PyInt(server_id).val)
             p == PyIndex(servers_of_user, PyInt(server_id).val)
         IN  IF e # 0 THEN [scope |-> "env", pos |-> e]
             ELSE IF p = 0 THEN NotResolved ELSE [scope |-> "user", pos |-> p]
    ELSE IF Contains(server_id, "_")
    THEN LET parts == SplitN(server_id, "_", 1)
             idx == PyInt(parts[2])
         IN  IF ~idx.ok THEN NotResolved
             ELSE IF parts[1] = "env"
             THEN LET p == PyIndex(envs, idx.val)
                  IN  IF p = 0 THEN NotResolved ELSE [scope |-> "env", pos |-> p]
             ELSE IF parts[1] = "user"
             THEN LET p == PyIndex(servers_of_user, idx.val)
                  IN  IF p = 0 THEN NotResolved ELSE [scope |-> "user", pos |-> p]
             ELSE NotResolved
    ELSE NotResolved

\* (scope, srv) as a scope and the 1-based position of srv in that scope's
\* list; (None, None) is NotResolved
ResolveServerById(server_id, servers_of_user, envs) ==
    IF IsDigit(server_id)
    THEN LET p == PyIndex(servers_of_user, PyInt(server_id).val)
         IN  IF p = 0 THEN NotResolved ELSE [scope |-> "user", pos |-> p]
    ELSE IF Contains(server_id, "_")
    THEN LET parts == SplitN(server_id, "_", 1)
             idx == PyInt(parts[2])
         IN  IF ~idx.ok THEN NotResolved
             ELSE IF parts[1] = "env"
             THEN LET p == PyIndex(envs, idx.val)
                  IN  IF p = 0 THEN NotResolved ELSE [scope |-> "env", pos |-> p]
             ELSE IF parts[1] = "user"
             THEN LET p == PyIndex(servers_of_user, idx.val)
                  IN  IF p = 0 THEN NotResolved ELSE [scope |-> "user", pos |-> p]
             ELSE NotResolved
    ELSE NotResolved

\* the entry a resolution stands for
Resolved(r, servers_of_user, envs) ==
    IF r.scope = "env" THEN envs[r.pos] ELSE servers_of_user[r.pos]


\* show_ssh_menu
ShowSshMenu(u) ==
    /\ last' = Event("button", u, "ssh_menu", "")
    /\ out' = <<SshMenu(ServersOf(user_servers, u), env_servers)>>
    /\ calls' = <<>>
    /\ UNCHANGED <<user_states, user_servers, env_servers, nkeys, authorized_keys, allowed_users>>

(***************************************************************************)
(* Deleting a server: confirm_delete_server and delete_server              *)
(***************************************************************************)
CannotDelete == Msg("cannot_delete", <<>>, <<>>)

\* confirm_delete_server that asks for confirmation whatever the scope of the
\* entry the id resolves to
ConfirmDeleteServerAnyScope(u, data, server_id) ==
    LET servers == ServersOf(user_servers, u)
        r == ResolveServerById(server_id, servers, env_servers)
    IN  /\ last' = Event("button", u, data, "")
        /\ out' = IF r.scope = "None" THEN <<CannotDelete>>
                  ELSE << Msg("confirm_delete",
                              <<Label(Resolved(r, servers, env_servers))>>,
                              << Button("yes", "ssh_delete_confirm_" \o server_id),
                                 Button("cancel", "ssh_menu") >>) >>
        /\ calls' = <<>>
        /\ UNCHANGED <<user_states, user_servers, env_servers, nkeys, authorized_keys, allowed_users>>

\* confirm_delete_server: the prompt, or the refusal
ConfirmDeleteServer(u, data, server_id) ==
    LET servers == ServersOf(user_servers, u)
        r == ResolveServerById(server_id, servers, env_servers)
    IN  /\ last' = Event("button", u, data, "")
        /\ out' = IF r.scope # "user" THEN <<CannotDelete>>
                  ELSE << Msg("confirm_delete", <<Label(servers[r.pos])>>,
                              << Button("yes", "ssh_delete_confirm_" \o server_id),
                                 Button("cancel", "ssh_menu") >>) >>
        /\ calls' = <<>>
        /\ UNCHANGED <<user_states, user_servers, env_servers, nkeys, authorized_keys, allowed_users>>

\* PopServer that keeps the operator's key when the list became empty
PopServerKeepsEmpty(servers_dict, u, servers, p) ==
    DictSet(servers_dict, u, RemoveAt(servers, p))

\* user_servers after delete_server popped position p of `servers`, the list
\* it got for u (bot.py:306-310)
PopServer(servers_dict, u, servers, p) ==
    LET rest == RemoveAt(servers, p)
    IN  IF Len(rest) = 0 THEN DictPop(servers_dict, u)
        ELSE DictSet(servers_dict, u, rest)

\* delete_server that pops from the list of the scope the id resolves to
DeleteServerAnyScope(u, data, server_id) ==
    LET servers == ServersOf(user_servers, u)
        r == ResolveServerById(server_id, servers, env_servers)
    IN  /\ last' = Event("button", u, data, "")
        /\ calls' = <<>>
        /\ IF r.scope = "None"
           THEN /\ out' = <<CannotDelete>>
                /\ UNCHANGED <<user_servers, env_servers>>
           ELSE IF r.scope = "env"
           THEN /\ env_servers' = RemoveAt(env_servers, r.pos)
                /\ out' = <<Msg("deleted", <<Label(env_servers[r.pos])>>, <<>>)>>
                /\ UNCHANGED user_servers
           ELSE /\ user_servers' = PopServer(user_servers, u, servers, r.pos)
                /\ out' = <<Msg("deleted", <<Label(servers[r.pos])>>, <<>>)>>
                /\ UNCHANGED env_servers
        /\ UNCHANGED <<user_states, nkeys, authorized_keys, allowed_users>>

\* what delete_server renders for server_id, servers being the sender's list:
\* the refusal (bot.py:303-305), nothing when line 307 raises, or the
\* confirmation and the refreshed menu (bot.py:312-315)
DeleteReply(server_id, servers, envs) ==
    LET r == ResolveServerById(server_id, servers, envs)
    IN  IF r.scope # "user" THEN <<CannotDelete>>
        ELSE IF Len(SplitN(server_id, "_", 1)) < 2 THEN <<>>
        ELSE LET p == PyIndex(servers, PyInt(SplitN(server_id, "_", 1)[2]).val)
             IN  << Msg("deleted", <<Label(servers[p])>>, <<>>),
                    SshMenu(RemoveAt(servers, p), envs) >>

\* delete_server
DeleteServer(u, data, server_id) ==
    LET servers == ServersOf(user_servers, u)
        r == ResolveServerById(server_id, servers, env_servers)
    IN  IF r.scope # "user"
        THEN /\ last' = Event("button", u, data, "")
             /\ out' = DeleteReply(server_id, servers, env_servers)
             /\ calls' = <<>>
             /\ UNCHANGED <<user_states, user_servers, env_servers, nkeys, authorized_keys, allowed_users>>
        ELSE IF Len(SplitN(server_id, "_", 1)) < 2
        THEN \* server_id.split('_', 1)[1] on an id without '_'
             /\ last' = Event("button", u, data, "IndexError")
             /\ out' = DeleteReply(server_id, servers, env_servers)
             /\ calls' = <<>>
             /\ UNCHANGED <<user_states, user_servers, env_servers, nkeys, authorized_keys, allowed_users>>
        ELSE LET idx == PyInt(SplitN(server_id, "_", 1)[2]).val
                 p == PyIndex(servers, idx)
             IN  /\ user_servers' = PopServer(user_servers, u, servers, p)
                 /\ last' = Event("button", u, data, "")
                 /\ out' = DeleteReply(server_id, servers, env_servers)
                 /\ calls' = <<>>
                 /\ UNCHANGED <<user_states, env_servers, nkeys, authorized_keys, allowed_users>>

(***************************************************************************)
(* The add-server wizard: start_add_ssh_server and text_handler            *)
(***************************************************************************)
NewSession == [flow |-> "add_server", step |-> "host", temp |-> EmptyDict]

\* StartedSession keeping the fields the replaced session had collected
StartedSessionKeepsTemp(states, u) ==
    IF u \in DOMAIN states THEN [NewSession EXCEPT !.temp = states[u].temp]
    ELSE NewSession

\* the session start_add_ssh_server stores for u, whatever u's session was
\* (bot.py:320-324)
StartedSession(states, u) == NewSession

\* start_add_ssh_server
StartAddSshServer(u) ==
    /\ user_states' = DictSet(user_states, u, StartedSession(user_states, u))
    /\ last' = Event("button", u, "ssh_add", "")
    /\ out' = <<Msg("ask_host", <<>>, <<>>)>>
    /\ calls' = <<>>
    /\ UNCHANGED <<user_servers, env_servers, nkeys, authorized_keys, allowed_users>>

\* the session after one wizard step stored its text and moved on
Advance(state, field, text, next_step) ==
    [state EXCEPT !.temp = DictSet(state.temp, field, Strip(text)),
                  !.step = next_step]

\* ServerEntry that keeps the password in the entry
ServerEntryKeepsPassword(host, username, password, kp) ==
    [host |-> host, username |-> username, password |-> password,
     private_key |-> kp.private_key, public_key |-> kp.public_key]

\* the entry _install_key_and_save_server builds (bot.py:383-388)
ServerEntry(host, username, password, kp) ==
    [host |-> host, username |-> username,
     private_key |-> kp.private_key, public_key |-> kp.public_key]

\* SaveServer that assigns a new one-entry list instead of appending
SaveServerReplaces(servers_dict, u, entry) == DictSet(servers_dict, u, <<entry>>)

\* self.user_servers.setdefault(user_id, []).append(server_entry) (bot.py:389)
SaveServer(servers_dict, u, entry) ==
    DictSet(servers_dict, u, Append(DictGetList(servers_dict, u), entry))

\* InstallKeyAndSaveServer that saves the entry whatever _ssh_copy_id did
InstallKeyAndSaveServerAnyway(servers_dict, u, entry, result) ==
    SaveServer(servers_dict, u, entry)

\* user_servers after _install_key_and_save_server, result being how
\* _ssh_copy_id ended: it raises before line 383 unless the result is Success
InstallKeyAndSaveServer(servers_dict, u, entry, result) ==
    IF result = "Success" THEN SaveServer(servers_dict, u, entry) ELSE servers_dict

\* self.user_states.pop(user_id, None) in the except branch (bot.py:361)
PopStateOnFailure(states, u) == DictPop(states, u)

\* self.user_states.pop(user_id, None) after a successful install (bot.py:365)
PopStateOnSuccess(states, u) == DictPop(states, u)

\* the remote calls of one provisioning attempt (bot.py:380)
InstallCalls(host, username, password, kp, result) ==
    << Call(host, username, "password", password,
            "ssh_copy_id " \o kp.public_key, result) >>

\* TextIgnored that answers the text although there is no session
TextIgnoredAnswers(u, text) ==
    /\ Idle
    /\ u \notin DOMAIN user_states
    /\ last' = Event("text", u, text, "")
    /\ out' = <<Msg("ask_host", <<>>, <<>>)>>
    /\ calls' = <<>>
    /\ UNCHANGED <<user_states, user_servers, env_servers, nkeys, authorized_keys, allowed_users>>

\* text_handler without a session (bot.py:330-332)
TextIgnored(u, text) ==
    /\ Idle
    /\ u \notin DOMAIN user_states
    /\ last' = Event("text", u, text, "")
    /\ out' = <<>>
    /\ calls' = <<>>
    /\ UNCHANGED <<user_states, user_servers, env_servers, nkeys, authorized_keys, allowed_users>>

\* text_handler at the host step (bot.py:335-339)
TextHost(u, text) ==
    /\ Idle
    /\ u \in DOMAIN user_states
    /\ user_states[u].flow = "add_server"
    /\ user_states[u].step = "host"
    /\ text \in TextsAt("host")
    /\ user_states' = DictSet(user_states, u,
                              Advance(user_states[u], "host", text, "username"))
    /\ last' = Event("text", u, text, "")
    /\ out' = <<Msg("ask_username", <<>>, <<>>)>>
    /\ calls' = <<>>
    /\ UNCHANGED <<user_servers, env_servers, nkeys, authorized_keys, allowed_users>>

\* text_handler at the username step (bot.py:340-344)
TextUsername(u, text) ==
    /\ Idle
    /\ u \in DOMAIN user_states
    /\ user_states[u].flow = "add_server"
    /\ user_states[u].step = "username"
    /\ text \in TextsAt("username")
    /\ user_states' = DictSet(user_states, u,
                              Advance(user_states[u], "username", text, "password"))
    /\ last' = Event("text", u, text, "")
    /\ out' = <<Msg("ask_password", <<>>, <<>>)>>
    /\ calls' = <<>>
    /\ UNCHANGED <<user_servers, env_servers, nkeys, authorized_keys, allowed_users>>

\* text_handler at the password step (bot.py:345-373); scrub is how
\* update.message.delete() ended, result how _ssh_copy_id ended
TextPassword(u, text, scrub, result) ==
    /\ Idle
    /\ u \in DOMAIN user_states
    /\ user_states[u].flow = "add_server"
    /\ user_states[u].step = "password"
    /\ text \in TextsAt("password")
    /\ nkeys < EnvKeys(EnvConfig, Len(EnvConfig)) + MaxKeys
    /\ LET state == [user_states[u] EXCEPT
                        !.temp = DictSet(user_states[u].temp, "password", Strip(text))]
           held == DictSet(user_states, u, state)
           host == state.temp["host"]
           username == state.temp["username"]
           password == state.temp["password"]
           kp == GenerateSshKeypair(nkeys + 1, username \o "@dockerbot")
           entry == ServerEntry(host, username, password, kp)
       IN  /\ nkeys' = nkeys + 1
           /\ calls' = InstallCalls(host, username, password, kp, result)
           /\ authorized_keys' = InstallKey(authorized_keys, host, kp.public_key, result)
           /\ user_servers' = InstallKeyAndSaveServer(user_servers, u, entry, result)
           /\ last' = [Event("text", u, text, "") EXCEPT !.scrub = scrub]
           /\ IF result = "Success"
              THEN /\ user_states' = PopStateOnSuccess(held, u)
                   /\ out' = << Msg("trying", <<>>, <<>>),
                                Msg("done", <<Label(entry)>>, <<>>),
                                Msg("what_next", <<>>,
                                    <<Button("open servers", "ssh_menu")>>) >>
              ELSE /\ user_states' = PopStateOnFailure(held, u)
                   /\ out' = << Msg("trying", <<>>, <<>>),
                                Msg("install_failed", <<result>>, <<>>) >>
    /\ UNCHANGED <<env_servers, allowed_users>>

\* text_handler at the password step when the reply of line 357 raises: the
\* password is in the session (bot.py:347) and nothing after line 357 runs
TextPasswordNoticeFails(u, text, scrub) ==
    /\ Idle
    /\ u \in DOMAIN user_states
    /\ user_states[u].flow = "add_server"
    /\ user_states[u].step = "password"
    /\ text \in TextsAt("password")
    /\ user_states' = [user_states EXCEPT
                          ![u].temp = DictSet(@, "password", Strip(text))]
    /\ last' = [Event("text", u, text, "TelegramError") EXCEPT !.scrub = scrub]
    /\ out' = <<Msg("trying", <<>>, <<>>)>>
    /\ calls' = <<>>
    /\ UNCHANGED <<user_servers, env_servers, nkeys, authorized_keys, allowed_users>>

\* text_handler
TextHandler(u, text) ==
    \/ TextIgnored(u, text)
    \/ TextHost(u, text)
    \/ TextUsername(u, text)
    \/ \E scrub \in {"deleted", "delete_failed"}, result \in InstallResults :
          TextPassword(u, text, scrub, result)
    \/ \E scrub \in {"deleted", "delete_failed"} :
          TextPasswordNoticeFails(u, text, scrub)

(***************************************************************************)
(* Remote commands: _ssh_exec, _ssh_exec_client and the handlers using them *)
(***************************************************************************)
\* SshExecClient that returns stderr whenever there is some
SshExecClientPrefersStderr(stdout, stderr) ==
    LET o == Strip(stdout)
        e == Strip(stderr)
    IN  IF e # "" THEN e ELSE o

\* _ssh_exec_client: the merged result of one command (bot.py:434-438)
SshExecClient(stdout, stderr) ==
    LET o == Strip(stdout)
        e == Strip(stderr)
    IN  IF e # "" /\ o = "" THEN e ELSE o

\* how one _ssh_exec call ends: err names the exception it raises, "" when it
\* returns the merged output of stdout and stderr
Ran(stdout, stderr) == [err |-> "", stdout |-> stdout, stderr |-> stderr]

Failed(err) == [err |-> err, stdout |-> "", stderr |-> ""]

\* the call _ssh_exec makes for a resolved entry: private-key authentication
SshExec(srv, cmd, res) ==
    Call(srv.host, srv.username, "pkey", srv.private_key, cmd,
         IF res.err = "" THEN "ok" ELSE res.err)

\* what a handler did besides changing the registry and the sessions: the
\* messages it rendered, the calls it made, the exception that escaped it
Outcome(msgs, cs, raised) == [out |-> msgs, calls |-> cs, raised |-> raised]

ServerNotFound == Outcome(<<Msg("server_not_found", <<>>, <<>>)>>, <<>>, "")

\* [l for l in output.split('\n') if l.strip()]
RECURSIVE NonBlank(_)
NonBlank(lines) ==
    IF Len(lines) = 0 THEN <<>>
    ELSE (IF Strip(lines[1]) # "" THEN <<lines[1]>> ELSE <<>>) \o NonBlank(Tail(lines))

\* ParseRows that stops at the first line it cannot split into three parts
RECURSIVE ParseRowsAborting(_)
ParseRowsAborting(lines) ==
    IF Len(lines) = 0 THEN <<>>
    ELSE LET parts == SplitN(lines[1], "|", 2)
         IN  IF Len(parts) = 3 THEN <<parts>> \o ParseRowsAborting(Tail(lines))
             ELSE <<>>

\* the rows a listing keeps: a, b, c = line.split('|', 2) raises ValueError,
\* and the line is skipped, unless the split gives three parts
RECURSIVE ParseRows(_)
ParseRows(lines) ==
    IF Len(lines) = 0 THEN <<>>
    ELSE LET parts == SplitN(lines[1], "|", 2)
         IN  (IF Len(parts) = 3 THEN <<parts>> ELSE <<>>) \o ParseRows(Tail(lines))

RECURSIVE Flatten(_)
Flatten(rows) == IF Len(rows) = 0 THEN <<>> ELSE rows[1] \o Flatten(Tail(rows))

\* callback data of a container button: f"sshc|info|{server_id}|{enc}"
\* (bot.py:473, 574), f"sshc|action|{server_id}|{verb}|{enc}" (bot.py:534-537)
\* and f"sshc|logs|{server_id}|{enc}" (bot.py:538), enc = quote(name, safe='')
InfoToken(server_id, name) == "sshc|info|" \o server_id \o "|" \o Quote(name)

ActionToken(server_id, verb, name) ==
    "sshc|action|" \o server_id \o "|" \o verb \o "|" \o Quote(name)

LogsToken(server_id, name) == "sshc|logs|" \o server_id \o "|" \o Quote(name)

RECURSIVE ContainerButtons(_, _)
ContainerButtons(rows, server_id) ==
    IF Len(rows) = 0 THEN <<>>
    ELSE << Button(rows[1][1], InfoToken(server_id, rows[1][1])) >>
         \o ContainerButtons(Tail(rows), server_id)

ListCmd == "docker ps -a --format '{{.Names}}|{{.Status}}|{{.Image}}'"

StatsCmd == "docker stats --no-stream --format '{{.Name}}|{{.CPUPerc}}|{{.MemPerc}}'"

\* show_remote_containers
RemoteContainers(server_id, servers_of_user, envs, res) ==
    LET r == ResolveServerById(server_id, servers_of_user, envs)
        srv == Resolved(r, servers_of_user, envs)
        lines == NonBlank(Split(SshExecClient(res.stdout, res.stderr), "\n"))
        rows == ParseRows(lines)
    IN  IF r.scope = "None" THEN ServerNotFound
        ELSE IF res.err # "" THEN Outcome(<<>>, <<SshExec(srv, ListCmd, res)>>, res.err)
        ELSE IF Len(lines) = 0
        THEN Outcome(<<Msg("no_remote_containers", <<>>, <<>>)>>,
                     <<SshExec(srv, ListCmd, res)>>, "")
        ELSE Outcome(<< Msg("remote_containers", Flatten(rows),
                            ContainerButtons(rows, server_id)
                            \o << Button("stats", "ssh_stats_" \o server_id),
                                  Button("back", "ssh_menu") >>) >>,
                     <<SshExec(srv, ListCmd, res)>>, "")

\* show_remote_stats
RemoteStats(server_id, servers_of_user, envs, res) ==
    LET r == ResolveServerById(server_id, servers_of_user, envs)
        srv == Resolved(r, servers_of_user, envs)
        lines == NonBlank(Split(SshExecClient(res.stdout, res.stderr), "\n"))
    IN  IF r.scope = "None" THEN ServerNotFound
        ELSE IF res.err # "" THEN Outcome(<<>>, <<SshExec(srv, StatsCmd, res)>>, res.err)
        ELSE IF Len(lines) = 0
        THEN Outcome(<<Msg("no_remote_running", <<>>, <<>>)>>,
                     <<SshExec(srv, StatsCmd, res)>>, "")
        ELSE Outcome(<< Msg("remote_stats", Flatten(ParseRows(lines)),
                            <<Button("back", "ssh_menu")>>) >>,
                     <<SshExec(srv, StatsCmd, res)>>, "")

InfoCmd(container_name) ==
    "docker ps -a --filter name=^/" \o container_name
    \o "$ --format '{{.Status}}|{{.Image}}'"

\* show_remote_container_info
RemoteContainerInfo(server_id, container_name, servers_of_user, envs, res) ==
    LET r == ResolveServerById(server_id, servers_of_user, envs)
        srv == Resolved(r, servers_of_user, envs)
        info_line == Strip(SshExecClient(res.stdout, res.stderr))
        parsed == info_line # "" /\ Contains(info_line, "|")
        status == IF parsed THEN SplitN(info_line, "|", 1)[1] ELSE "unknown"
        image == IF parsed THEN SplitN(info_line, "|", 1)[2] ELSE ""
    IN  IF r.scope = "None" THEN ServerNotFound
        ELSE IF res.err # ""
        THEN Outcome(<<>>, <<SshExec(srv, InfoCmd(container_name), res)>>, res.err)
        ELSE Outcome(
                << Msg("remote_container_info", <<container_name, status, image>>,
                       (IF StartsWith(Lower(status), "up")
                        THEN << Button("stop",
                                       ActionToken(server_id, "stop", container_name)),
                                Button("restart",
                                       ActionToken(server_id, "restart", container_name)) >>
                        ELSE << Button("start",
                                       ActionToken(server_id, "start", container_name)) >>)
                       \o << Button("logs", LogsToken(server_id, container_name)),
                             Button("back", "ssh_connect_" \o server_id) >>) >>,
                <<SshExec(srv, InfoCmd(container_name), res)>>, "")

\* handle_remote_action: the command, then the refreshed container card
RemoteAction(server_id, action, container_name, servers_of_user, envs, res, res2) ==
    LET r == ResolveServerById(server_id, servers_of_user, envs)
        srv == Resolved(r, servers_of_user, envs)
        cmd == "docker " \o action \o " " \o container_name
        card == RemoteContainerInfo(server_id, container_name, servers_of_user,
                                    envs, res2)
    IN  IF r.scope = "None" THEN ServerNotFound
        ELSE IF action \notin {"start", "stop", "restart"}
        THEN Outcome(<<Msg("unknown_action", <<>>, <<>>)>>, <<>>, "")
        ELSE IF res.err # "" THEN Outcome(<<>>, <<SshExec(srv, cmd, res)>>, res.err)
        ELSE Outcome(card.out, <<SshExec(srv, cmd, res)>> \o card.calls, card.raised)

\* logs[-3000:]
LogLimit == 3000

LastChars(s, n) == IF Len(s) > n THEN SubSeq(s, Len(s) - n + 1, Len(s)) ELSE s

\* show_remote_logs
RemoteLogs(server_id, container_name, servers_of_user, envs, res) ==
    LET r == ResolveServerById(server_id, servers_of_user, envs)
        srv == Resolved(r, servers_of_user, envs)
        cmd == "docker logs --tail 50 " \o container_name
        logs == LastChars(SshExecClient(res.stdout, res.stderr), LogLimit)
    IN  IF r.scope = "None" THEN ServerNotFound
        ELSE IF res.err # "" THEN Outcome(<<>>, <<SshExec(srv, cmd, res)>>, res.err)
        ELSE Outcome(<< Msg("remote_logs", <<container_name, logs>>,
                            << Button("back",
                                      InfoToken(server_id, container_name)) >>) >>,
                     <<SshExec(srv, cmd, res)>>, "")

\* Sshc that takes an info token with more fields than the format has
SshcLenient(data, servers_of_user, envs, res, res2) ==
    LET parts == Split(data, "|")
        n == Len(parts)
    IN  IF n >= 4 /\ parts[2] = "info"
        THEN RemoteContainerInfo(parts[3], Unquote(parts[4]), servers_of_user, envs, res)
        ELSE IF n >= 3 /\ parts[2] = "action" /\ n = 5
        THEN RemoteAction(parts[3], parts[4], Unquote(parts[5]), servers_of_user,
                          envs, res, res2)
        ELSE IF n >= 3 /\ parts[2] = "logs" /\ n = 4
        THEN RemoteLogs(parts[3], Unquote(parts[4]), servers_of_user, envs, res)
        ELSE Outcome(<<>>, <<>>, "")

\* the sshc| branch of button_handler (bot.py:189-202): None when no format
\* matches and nothing is rendered
Sshc(data, servers_of_user, envs, res, res2) ==
    LET parts == Split(data, "|")
        n == Len(parts)
    IN  IF n >= 3 /\ parts[2] = "info" /\ n = 4
        THEN RemoteContainerInfo(parts[3], Unquote(parts[4]), servers_of_user, envs, res)
        ELSE IF n >= 3 /\ parts[2] = "action" /\ n = 5
        THEN RemoteAction(parts[3], parts[4], Unquote(parts[5]), servers_of_user,
                          envs, res, res2)
        ELSE IF n >= 3 /\ parts[2] = "logs" /\ n = 4
        THEN RemoteLogs(parts[3], Unquote(parts[4]), servers_of_user, envs, res)
        ELSE Outcome(<<>>, <<>>, "")

(***************************************************************************)
(* The local container engine: show_containers, show_stats,                *)
(* show_container_info and handle_action                                   *)
(***************************************************************************)
\* a call on the engine's socket
Docker(cmd, result) == Call("local", "", "socket", "", cmd, result)

RECURSIVE Names(_)
Names(containers) ==
    IF Len(containers) = 0 THEN <<>>
    ELSE <<containers[1].name>> \o Names(Tail(containers))

RECURSIVE Running(_)
Running(containers) ==
    IF Len(containers) = 0 THEN <<>>
    ELSE (IF containers[1].status = "running" THEN <<containers[1]>> ELSE <<>>)
         \o Running(Tail(containers))

RECURSIVE LocalButtons(_)
LocalButtons(containers) ==
    IF Len(containers) = 0 THEN <<>>
    ELSE << Button(containers[1].name, "container_" \o containers[1].name) >>
         \o LocalButtons(Tail(containers))

\* show_containers, containers being what the engine lists
LocalContainers(containers) ==
    IF Len(containers) = 0
    THEN Outcome(<<Msg("no_containers", <<>>, <<>>)>>, <<Docker("list", "ok")>>, "")
    ELSE Outcome(<< Msg("containers", Names(containers),
                        LocalButtons(containers) \o <<Button("back", "back")>>) >>,
                 <<Docker("list", "ok")>>, "")

\* show_stats
LocalStats(containers) ==
    Outcome(<< Msg("stats",
                   <<Str(Len(Running(containers))), Str(Len(containers))>>
                   \o Names(Running(containers)),
                   <<Button("back", "back")>>) >>,
            <<Docker("stats", "ok"), Docker("list", "ok")>>, "")

\* containers.get(name): the 1-based position of the container, 0 for NotFound
Lookup(containers, name) ==
    IF \E i \in 1..Len(containers) : containers[i].name = name
    THEN CHOOSE i \in 1..Len(containers) : containers[i].name = name
    ELSE 0

\* show_container_info
LocalContainerInfo(data, containers) ==
    LET container_name == Split(data, "_")[2]
        i == Lookup(containers, container_name)
    IN  IF i = 0
        THEN Outcome(<<Msg("container_info_error", <<"NotFound">>, <<>>)>>,
                     <<Docker("get " \o container_name, "NotFound")>>, "")
        ELSE Outcome(
                << Msg("container_info",
                       <<container_name, containers[i].status, containers[i].image>>,
                       (IF containers[i].status = "running"
                        THEN << Button("stop", "action_stop_" \o container_name),
                                Button("restart", "action_restart_" \o container_name) >>
                        ELSE << Button("start", "action_start_" \o container_name) >>)
                       \o << Button("logs", "action_logs_" \o container_name),
                             Button("back", "list") >>) >>,
                <<Docker("get " \o container_name, "ok")>>, "")

\* handle_action; ok tells whether the engine carries the command out
LocalAction(data, containers, ok) ==
    LET parts == Split(data, "_")
        action == parts[2]
        container_name == Join(SubSeq(parts, 3, Len(parts)), "_")
        done == Lookup(containers, container_name) # 0 /\ ok
        result == IF done THEN "ok" ELSE "failed"
    IN  IF action \in {"start", "stop", "restart"}
        THEN Outcome(<< Msg(IF done THEN action \o "_ok" ELSE action \o "_failed",
                            <<container_name>>, <<>>) >>,
                     <<Docker(action \o " " \o container_name, result)>>, "")
        ELSE IF action = "logs"
        THEN Outcome(<< Msg("logs", <<container_name, result>>,
                            <<Button("back", "container_" \o container_name)>>) >>,
                     <<Docker("logs " \o container_name, result)>>, "")
        ELSE Outcome(<<>>, <<>>, "")

(***************************************************************************)
(* button_handler                                                          *)
(***************************************************************************)
\* the branch of the if / elif chain that query.data takes (bot.py:167-206)
Route(data) ==
    IF data = "list" THEN "list"
    ELSE IF data = "stats" THEN "stats"
    ELSE IF data = "back" THEN "back"
    ELSE IF data = "ssh_menu" THEN "ssh_menu"
    ELSE IF data = "ssh_add" THEN "ssh_add"
    ELSE IF StartsWith(data, "ssh_connect_") THEN "ssh_connect_"
    ELSE IF StartsWith(data, "ssh_stats_") THEN "ssh_stats_"
    ELSE IF StartsWith(data, "ssh_delete_confirm_") THEN "ssh_delete_confirm_"
    ELSE IF StartsWith(data, "ssh_delete_") THEN "ssh_delete_"
    ELSE IF StartsWith(data, "sshc|") THEN "sshc|"
    ELSE IF StartsWith(data, "container_") THEN "container_"
    ELSE IF StartsWith(data, "action_") THEN "action_"
    ELSE "none"

\* a handler that only renders and calls: registry and sessions stay
Render(u, data, outcome) ==
    /\ last' = Event("button", u, data, outcome.raised)
    /\ out' = outcome.out
    /\ calls' = outcome.calls
    /\ UNCHANGED <<user_states, user_servers, env_servers, nkeys, authorized_keys, allowed_users>>

\* start_menu
StartMenu(u) == Render(u, "back", Outcome(<<MainMenu>>, <<>>, ""))

(***************************************************************************)
(* Inputs of the specification                                             *)
(***************************************************************************)
\* callback data an operator may send: data the menus render, and stale or
\* hand-made data
ButtonData ==
    { "list", "stats", "back", "ssh_menu", "ssh_add",
      "ssh_connect_user_0", "ssh_connect_env_0", "ssh_stats_user_0",
      "ssh_delete_user_0", "ssh_delete_user_1", "ssh_delete_env_0",
      "ssh_delete_confirm_user_0", "ssh_delete_confirm_user_1",
      "ssh_delete_confirm_env_0", "ssh_delete_confirm_0",
      "ssh_delete_confirm_user_-1",
      "ssh_connect_0", "ssh_connect_user_x", "ssh_connect_foo_0",
      "sshc|info|abc", "sshc|info|env_0|a|b",
      InfoToken("user_0", "web"), InfoToken("env_0", "|%7C"),
      ActionToken("env_0", "stop", "|%7C"), LogsToken("env_0", "|%7C"),
      "container_web", "action_stop_web", "bogus" }

\* how a remote command may end
RemoteResults == { Ran("web|Up 2 hours|nginx", ""), Failed("NetworkError") }

\* what the local engine may hold
ContainerLists ==
    { <<>>, <<[name |-> "web", status |-> "running", image |-> "nginx"]>> }

\* await query.answer() raised (bot.py:165): nothing was dispatched
AnswerFails == Outcome(<<>>, <<>>, "TelegramError")

\* button_handler for callback data `data` pressed by u.  How the remote
\* commands of a handler end (res, res2), what the local engine lists
\* (containers) and whether it carries a command out (ok) are the environment's
\* choice.
ButtonHandler(u, data) ==
    LET mine == ServersOf(user_servers, u)
    IN
        \/ /\ Idle
           /\ Render(u, data, AnswerFails)
        \/ /\ Idle
           /\ Route(data) = "list"
           /\ \E containers \in ContainerLists :
                 Render(u, data, LocalContainers(containers))
        \/ /\ Idle
           /\ Route(data) = "stats"
           /\ \E containers \in ContainerLists :
                 Render(u, data, LocalStats(containers))
        \/ /\ Idle
           /\ Route(data) = "back"
           /\ StartMenu(u)
        \/ /\ Idle
           /\ Route(data) = "ssh_menu"
           /\ ShowSshMenu(u)
        \/ /\ Idle
           /\ Route(data) = "ssh_add"
           /\ StartAddSshServer(u)
        \/ /\ Idle
           /\ Route(data) = "ssh_connect_"
           /\ \E res \in RemoteResults :
                 Render(u, data, RemoteContainers(Remove(data, "ssh_connect_"),
                                                  mine, env_servers, res))
        \/ /\ Idle
           /\ Route(data) = "ssh_stats_"
           /\ \E res \in RemoteResults :
                 Render(u, data, RemoteStats(Remove(data, "ssh_stats_"),
                                             mine, env_servers, res))
        \/ /\ Idle
           /\ Route(data) = "ssh_delete_confirm_"
           /\ DeleteServer(u, data, Remove(data, "ssh_delete_confirm_"))
        \/ /\ Idle
           /\ Route(data) = "ssh_delete_"
           /\ ConfirmDeleteServer(u, data, Remove(data, "ssh_delete_"))
        \/ /\ Idle
           /\ Route(data) = "sshc|"
           /\ \E res \in RemoteResults, res2 \in RemoteResults :
                 Render(u, data, Sshc(data, mine, env_servers, res, res2))
        \/ /\ Idle
           /\ Route(data) = "container_"
           /\ \E containers \in ContainerLists :
                 Render(u, data, LocalContainerInfo(data, containers))
        \/ /\ Idle
           /\ Route(data) = "action_"
           /\ \E containers \in ContainerLists, ok \in BOOLEAN :
                 Render(u, data, LocalAction(data, containers, ok))
        \/ /\ Idle
           /\ Route(data) = "none"
           /\ Render(u, data, Outcome(<<>>, <<>>, ""))


\* process_update returns: the dispatcher is ready for the next update, and
\* what the handler rendered and called belongs to the past
Return ==
    /\ last.kind # "idle"
    /\ last' = NoEvent
    /\ out' = <<>>
    /\ calls' = <<>>
    /\ UNCHANGED <<user_states, user_servers, env_servers, nkeys, authorized_keys, allowed_users>>

\* one update at a time: a handler starts when the dispatcher is idle, and
\* the dispatcher is idle again when the handler has returned
Next ==
    \/ \E u \in Users :
          \/ Start(u)
          \/ \E data \in ButtonData : ButtonHandler(u, data)
          \/ \E text \in Texts : TextHandler(u, text)
    \/ Return

Spec == Init /\ [][Next]_vars

(***************************************************************************)
(* _ssh_copy_id applied again and again to one account                     *)
(***************************************************************************)
\* installs of one behaviour
MaxInstalls == 3

\* the account the keys are installed on
StoreHost == "10.0.0.5"

\* the key pairs installed
StoreKeyPairs ==
    { GenerateSshKeypair(1, "root@dockerbot"), GenerateSshKeypair(2, "root@dockerbot") }

\* what authorized_keys of the account may hold beforehand: nothing, a key of
\* somebody else, keys around the first key pair's own, and a file whose last
\* line does not end with a newline
InitialStores ==
    { "",
      "ssh-ed25519 AAAA admin\n",
      GenerateSshKeypair(1, "root@dockerbot").public_key \o "\n",
      "ssh-ed25519 AAAA admin\n" \o GenerateSshKeypair(1, "root@dockerbot").public_key
          \o "\nssh-ed25519 BBBB backup\n",
      "ssh-ed25519 AAAA admin",
      "ssh-ed25519 AAAA admin\n" \o GenerateSshKeypair(1, "root@dockerbot").public_key }

InstallInit ==
    /\ user_states = EmptyDict
    /\ user_servers = EmptyDict
    /\ env_servers = <<>>
    /\ nkeys = 0
    /\ \E store \in InitialStores :
          authorized_keys = [h \in RemoteHosts |-> IF h = StoreHost THEN store ELSE ""]
    /\ allowed_users = {}
    /\ last = NoEvent
    /\ out = <<>>
    /\ calls = <<>>

\* one more _ssh_copy_id of the key pair on the account, ending as result
SshCopyIdAgain(kp, result) ==
    /\ Len(calls) < MaxInstalls
    /\ authorized_keys' = InstallKey(authorized_keys, StoreHost, kp.public_key, result)
    /\ calls' = calls \o InstallCalls(StoreHost, "root", "secret", kp, result)
    /\ UNCHANGED <<user_states, user_servers, env_servers, nkeys, allowed_users, last,
                   out>>

InstallNext ==
    \E kp \in StoreKeyPairs, result \in InstallResults : SshCopyIdAgain(kp, result)

InstallSpec == InstallInit /\ [][InstallNext]_vars
(***************************************************************************)
(* _ssh_exec_client applied to what a command wrote                        *)
(***************************************************************************)
\* commands of one behaviour
MaxRuns == 2

\* what a command may have written to stdout or to stderr: nothing, a blank
\* line, a line of output, a line of diagnostics
Streams == { "", "\n", "web\n", "WARN x\n" }

ExecInit ==
    /\ user_states = EmptyDict
    /\ user_servers = EmptyDict
    /\ env_servers = <<>>
    /\ nkeys = 0
    /\ authorized_keys = [h \in RemoteHosts |-> ""]
    /\ allowed_users = {}
    /\ last = NoEvent
    /\ out = <<>>
    /\ calls = <<>>

\* one more command on an open connection: calls keeps what it wrote, out
\* what _ssh_exec_client returned for it
SshExecClientRun(cmd, stdout, stderr) ==
    /\ Len(calls) < MaxRuns
    /\ calls' = Append(calls, Call(StoreHost, "root", "pkey", "PRIVATE-KEY-1", cmd,
                                   Ran(stdout, stderr)))
    /\ out' = Append(out, SshExecClient(stdout, stderr))
    /\ UNCHANGED <<user_states, user_servers, env_servers, nkeys, authorized_keys, allowed_users, last>>

ExecNext ==
    \E stdout \in Streams, stderr \in Streams :
       SshExecClientRun("docker logs --tail 50 web", stdout, stderr)

ExecSpec == ExecInit /\ [][ExecNext]_vars

(***************************************************************************)
(* The event loop: the handlers are coroutines of one thread, dispatched   *)
(* one update at a time by run_polling, and _ssh_exec and _ssh_copy_id are *)
(* plain calls that return when the remote command has ended               *)
(***************************************************************************)
\* the running handler has started a remote call that has not returned
InFlight == calls # <<>> /\ calls[Len(calls)].result = "in_flight"

\* a command that ran and wrote nothing
Quiet == Ran("", "")

\* what button_handler does for the buttons that reach a server
\* (bot.py:177-202), res and res2 being how its remote commands end
RemoteOutcome(u, data, res, res2) ==
    LET mine == ServersOf(user_servers, u)
    IN  IF Route(data) = "ssh_connect_"
        THEN RemoteContainers(Remove(data, "ssh_connect_"), mine, env_servers, res)
        ELSE IF Route(data) = "ssh_stats_"
        THEN RemoteStats(Remove(data, "ssh_stats_"), mine, env_servers, res)
        ELSE IF Route(data) = "sshc|"
        THEN Sshc(data, mine, env_servers, res, res2)
        ELSE Outcome(<<>>, <<>>, "")

\* the remote calls the handler of the button makes when none of them fails
Planned(u, data) == RemoteOutcome(u, data, Quiet, Quiet).calls

\* a session that has collected host and username and waits for the password
\* (bot.py:335-344)
WaitingForPassword(host_text, user_text) ==
    Advance(Advance(NewSession, "host", host_text, "username"),
            "username", user_text, "password")

\* buttons that reach a server
LoopButtons ==
    { "ssh_connect_env_0", "ssh_stats_env_0", "ssh_connect_user_0",
      InfoToken("env_0", "web"), ActionToken("env_0", "stop", "web"),
      LogsToken("env_0", "web") }

\* the bot after startup, some operators being at the password step of the
\* wizard
LoopInit ==
    /\ \E waiting \in SUBSET Users, host_text \in HostTexts, user_text \in UserTexts :
          user_states = [u \in waiting |-> WaitingForPassword(host_text, user_text)]
    /\ user_servers = EmptyDict
    /\ \E results \in [1..Len(EnvConfig) -> InstallResults] :
          /\ env_servers = LoadEnvServers(EnvConfig, results, Len(EnvConfig))
          /\ authorized_keys = LoadEnvStores(EnvConfig, results, Len(EnvConfig))
    /\ nkeys = EnvKeys(EnvConfig, Len(EnvConfig))
    /\ allowed_users = {}
    /\ last = NoEvent
    /\ out = <<>>
    /\ calls = <<>>

\* the dispatcher hands the next update to button_handler: it is back in
\* run_polling, no handler is running
Accept(u, data) ==
    /\ Idle
    /\ Planned(u, data) # <<>>
    /\ last' = Event("button", u, data, "")
    /\ out' = <<>>
    /\ calls' = <<>>
    /\ UNCHANGED <<user_states, user_servers, env_servers, nkeys, authorized_keys, allowed_users>>

\* CallStarts that does not wait for the call before: the handler goes on
\* while its call runs elsewhere
CallStartsDetached ==
    /\ last.kind = "button"
    /\ last.raised = ""
    /\ out = <<>>
    /\ \E planned \in {Planned(last.user, last.data)} :
          /\ Len(calls) < Len(planned)
          /\ calls' = Append(calls, [planned[Len(calls) + 1]
                                        EXCEPT !.result = "in_flight"])
    /\ UNCHANGED <<user_states, user_servers, env_servers, nkeys, authorized_keys, allowed_users,
                   last, out>>

\* the running handler reaches its next self._ssh_exec(...): the call is made
\* on the loop's thread (bot.py:447, 488, 518, 558, 570)
CallStarts ==
    /\ last.kind = "button"
    /\ last.raised = ""
    /\ out = <<>>
    /\ ~InFlight
    /\ \E planned \in {Planned(last.user, last.data)} :
          /\ Len(calls) < Len(planned)
          /\ calls' = Append(calls, [planned[Len(calls) + 1]
                                        EXCEPT !.result = "in_flight"])
    /\ UNCHANGED <<user_states, user_servers, env_servers, nkeys, authorized_keys, allowed_users,
                   last, out>>

\* _ssh_exec returns or raises (bot.py:422-430): the handler goes on to its
\* next call, or renders and ends, or ends with the exception
CallReturns(res) ==
    /\ last.kind = "button"
    /\ InFlight
    /\ \E o \in { RemoteOutcome(last.user, last.data,
                                IF Len(calls) = 1 THEN res ELSE Quiet,
                                IF Len(calls) = 1 THEN Quiet ELSE res) } :
          IF Len(calls) < Len(o.calls)
          THEN /\ calls' = [calls EXCEPT ![Len(calls)].result = "ok"]
               /\ UNCHANGED <<last, out>>
          ELSE /\ calls' = o.calls
               /\ out' = o.out
               /\ last' = [last EXCEPT !.raised = o.raised]
    /\ UNCHANGED <<user_states, user_servers, env_servers, nkeys, authorized_keys, allowed_users>>

\* the dispatcher hands a text to text_handler at the password step: the
\* password is stored and the notice is sent (bot.py:345-357)
AcceptText(u, text) ==
    /\ Idle
    /\ u \in DOMAIN user_states
    /\ user_states[u].flow = "add_server"
    /\ user_states[u].step = "password"
    /\ text \in TextsAt("password")
    /\ nkeys < EnvKeys(EnvConfig, Len(EnvConfig)) + MaxKeys
    /\ user_states' = [user_states EXCEPT
                          ![u].temp = DictSet(@, "password", Strip(text))]
    /\ last' = [Event("text", u, text, "") EXCEPT !.scrub = "deleted"]
    /\ out' = <<Msg("trying", <<>>, <<>>)>>
    /\ calls' = <<>>
    /\ UNCHANGED <<user_servers, env_servers, nkeys, authorized_keys, allowed_users>>

\* _install_key_and_save_server generates the pair and calls _ssh_copy_id on
\* the loop's thread (bot.py:378-380)
ProvisionStarts ==
    /\ last.kind = "text"
    /\ Len(out) = 1
    /\ calls = <<>>
    /\ LET temp == user_states[last.user].temp
           kp == GenerateSshKeypair(nkeys + 1, temp["username"] \o "@dockerbot")
       IN  calls' = InstallCalls(temp["host"], temp["username"], temp["password"],
                                 kp, "in_flight")
    /\ nkeys' = nkeys + 1
    /\ UNCHANGED <<user_states, user_servers, env_servers, authorized_keys, allowed_users, last, out>>

\* _ssh_copy_id returns or raises, and text_handler runs to its end
\* (bot.py:358-373)
ProvisionReturns(result) ==
    /\ last.kind = "text"
    /\ InFlight
    /\ LET temp == user_states[last.user].temp
           kp == GenerateSshKeypair(nkeys, temp["username"] \o "@dockerbot")
           entry == ServerEntry(temp["host"], temp["username"], temp["password"], kp)
       IN  /\ calls' = InstallCalls(temp["host"], temp["username"], temp["password"],
                                    kp, result)
           /\ authorized_keys' = InstallKey(authorized_keys, temp["host"],
                                            kp.public_key, result)
           /\ user_servers' = InstallKeyAndSaveServer(user_servers, last.user, entry,
                                                      result)
           /\ IF result = "Success"
              THEN /\ user_states' = PopStateOnSuccess(user_states, last.user)
                   /\ out' = out \o << Msg("done", <<Label(entry)>>, <<>>),
                                       Msg("what_next", <<>>,
                                           <<Button("open servers", "ssh_menu")>>) >>
              ELSE /\ user_states' = PopStateOnFailure(user_states, last.user)
                   /\ out' = Append(out, Msg("install_failed", <<result>>, <<>>))
    /\ UNCHANGED <<env_servers, nkeys, allowed_users, last>>

\* the handler has ended and the dispatcher takes the loop back
HandlerEnds ==
    /\ ~InFlight
    /\ \/ last.kind = "button" /\ (out # <<>> \/ last.raised # "")
       \/ last.kind = "text" /\ Len(out) > 1
    /\ Return

LoopNext ==
    \/ \E u \in Users :
          \/ \E data \in LoopButtons : Accept(u, data)
          \/ \E text \in PasswordTexts : AcceptText(u, text)
    \/ CallStarts
    \/ \E res \in RemoteResults : CallReturns(res)
    \/ ProvisionStarts
    \/ \E result \in InstallResults : ProvisionReturns(result)
    \/ HandlerEnds

LoopSpec == LoopInit /\ [][LoopNext]_vars

(***************************************************************************)
(* show_remote_containers and show_remote_stats on what the command wrote  *)
(***************************************************************************)
\* what docker ps / docker stats may have written to stdout: rows, blank
\* lines between and after them, and lines with one, two and four fields
ListingOutputs ==
    { "",
      "\n \n",
      "web|Up 2 hours|nginx\n",
      "web|Up 2 hours|nginx\n\n\n",
      "web|Up 2 hours|nginx\n\ndb|Exited (0)|postgres\n",
      "WARNING: no swap\nweb|Up 2 hours|nginx\n",
      "web|Up 2 hours\ndb|Exited (0)|postgres\n",
      "web|Up 2 hours|nginx|extra\ndb|Exited (0)|postgres\n",
      "db|Exited (0)|postgres\nweb|Up 2 hours|nginx|extra\n",
      "junk\n" }

\* the listing buttons of the Environment entries
ListingButtons == { "ssh_connect_env_0", "ssh_stats_env_0", "ssh_connect_env_1" }

\* button_handler for a listing button whose command wrote stdout; calls keeps
\* what the command wrote
ShowListing(u, data, stdout) ==
    /\ Idle
    /\ \E o \in {RemoteOutcome(u, data, Ran(stdout, ""), Quiet)} :
          /\ o.calls # <<>>
          /\ last' = Event("button", u, data, o.raised)
          /\ out' = o.out
          /\ calls' = <<[o.calls[1] EXCEPT !.result = Ran(stdout, "")]>>
    /\ UNCHANGED <<user_states, user_servers, env_servers, nkeys, authorized_keys, allowed_users>>

ListingNext ==
    \/ \E u \in Users, data \in ListingButtons, stdout \in ListingOutputs :
          ShowListing(u, data, stdout)
    \/ Return

ListingSpec == Init /\ [][ListingNext]_vars

(***************************************************************************)
(* Deleting from the messages of one chat: every button belongs to a       *)
(* message, query.edit_message_text rewrites the message whose button was  *)
(* pressed, and /start sends a new one                                     *)
(***************************************************************************)
\* messages of the chat
MaxMessages == 2

\* the operator the chat belongs to
ChatOwner == 1

\* the servers the operator has registered: two wizard runs on accounts of
\* one host
RegisteredServers ==
    << ServerEntry("10.0.0.5", "deploy", "secret123",
                   GenerateSshKeypair(1, "deploy@dockerbot")),
       ServerEntry("10.0.0.5", "root", "secret123",
                   GenerateSshKeypair(2, "root@dockerbot")),
       ServerEntry("10.0.0.5", "ops", "secret123",
                   GenerateSshKeypair(3, "ops@dockerbot")) >>

\* what confirm_delete_server renders for server_id: the prompt, or the
\* refusal (bot.py:287-298)
ConfirmReply(server_id, servers, envs) ==
    LET r == ResolveServerById(server_id, servers, envs)
    IN  IF r.scope # "user" THEN <<CannotDelete>>
        ELSE << Msg("confirm_delete", <<Label(servers[r.pos])>>,
                    << Button("yes", "ssh_delete_confirm_" \o server_id),
                       Button("cancel", "ssh_menu") >>) >>

\* user_servers after delete_server (bot.py:302-310)
ServersAfterDelete(servers_dict, u, server_id, envs) ==
    LET servers == ServersOf(servers_dict, u)
        r == ResolveServerById(server_id, servers, envs)
    IN  IF r.scope # "user" \/ Len(SplitN(server_id, "_", 1)) < 2 THEN servers_dict
        ELSE PopServer(servers_dict, u, servers,
                       PyIndex(servers, PyInt(SplitN(server_id, "_", 1)[2]).val))

\* the chat after startup without configured servers, the operator having
\* registered the servers and sent /start; out holds the messages of the chat
\* as they are now
ChatInit ==
    /\ user_states = EmptyDict
    /\ user_servers = DictSet(EmptyDict, ChatOwner, RegisteredServers)
    /\ env_servers = <<>>
    /\ nkeys = Len(RegisteredServers)
    /\ authorized_keys =
          [h \in RemoteHosts |->
              IF h = "10.0.0.5"
              THEN SshCopyId(SshCopyId(SshCopyId("", RegisteredServers[1].public_key),
                                       RegisteredServers[2].public_key),
                             RegisteredServers[3].public_key)
              ELSE ""]
    /\ allowed_users = {}
    /\ last = NoEvent
    /\ out = <<MainMenu>>
    /\ calls = <<>>

\* /start: a new message with the main menu (bot.py:142-160)
StartAgain ==
    /\ Len(out) < MaxMessages
    /\ last' = Event("command", ChatOwner, "start", "")
    /\ out' = Append(out, MainMenu)
    /\ UNCHANGED <<user_states, user_servers, env_servers, nkeys, authorized_keys, allowed_users,
                   calls>>

\* what the handler of a menu button leaves in the message it edits
\* (bot.py:170-188)
Edited(data, servers, envs) ==
    IF Route(data) = "back" THEN <<MainMenu>>
    ELSE IF Route(data) = "ssh_menu" THEN <<SshMenu(servers, envs)>>
    ELSE IF Route(data) = "ssh_delete_confirm_"
    THEN DeleteReply(Remove(data, "ssh_delete_confirm_"), servers, envs)
    ELSE ConfirmReply(Remove(data, "ssh_delete_"), servers, envs)

\* the operator presses button b of message i: button_handler runs for its
\* callback data and the message shows what the handler rendered last
Press(i, b) ==
    LET data == out[i].buttons[b].data
        shown == Edited(data, ServersOf(user_servers, ChatOwner), env_servers)
    IN  /\ Route(data) \in {"back", "ssh_menu", "ssh_delete_", "ssh_delete_confirm_"}
        /\ last' = Event("button", ChatOwner, data, "")
        /\ out' = [out EXCEPT ![i] = shown[Len(shown)]]
        /\ user_servers' =
              IF Route(data) = "ssh_delete_confirm_"
              THEN ServersAfterDelete(user_servers, ChatOwner,
                                      Remove(data, "ssh_delete_confirm_"), env_servers)
              ELSE user_servers
        /\ UNCHANGED <<user_states, env_servers, nkeys, authorized_keys, allowed_users, calls>>

ChatNext ==
    \/ StartAgain
    \/ \E i \in 1..MaxMessages :
          /\ i <= Len(out)
          /\ \E b \in 1..Len(out[i].buttons) : Press(i, b)

ChatSpec == ChatInit /\ [][ChatNext]_vars

(***************************************************************************)
(* Provisioning when the commands of _ssh_copy_id may fail on the host     *)
(***************************************************************************)
\* the commands _ssh_copy_id runs over the password connection, in order
\* (bot.py:405-413)
InstallCommands(public_key) ==
    << "mkdir -p ~/.ssh",
       "chmod 700 ~/.ssh",
       "touch ~/.ssh/authorized_keys",
       "chmod 600 ~/.ssh/authorized_keys",
       "grep -qxF '" \o public_key \o "' ~/.ssh/authorized_keys || echo '"
           \o public_key \o "' >> ~/.ssh/authorized_keys" >>

\* the exit statuses the five commands may end with on the host
ExitStatuses == [1..5 -> {0, 1}]

\* what ssh.connect does (bot.py:404) and, when it connected, how each command
\* ended on the host
ProvisionOutcomes ==
    {[connect |-> e, exits |-> [k \in 1..5 |-> 0]] : e \in SshErrors}
    \cup {[connect |-> "Success", exits |-> x] : x \in ExitStatuses}

\* authorized_keys after the five commands: the first four leave the content
\* alone, and the last one leaves the key in the file when it exits with 0
\* and the file as it was when the append failed
SshCopyIdOnHost(content, public_key, exits) ==
    IF exits[5] = 0 THEN SshCopyId(content, public_key) ELSE content

\* how _ssh_copy_id ends: _ssh_exec_client reads the two streams and never
\* the exit status (bot.py:432-438), so only ssh.connect makes it raise
SshCopyIdResult(outcome) == outcome.connect

\* the calls of one provisioning attempt, command by command
CommandCalls(host, username, password, kp, outcome) ==
    IF outcome.connect # "Success"
    THEN InstallCalls(host, username, password, kp, outcome.connect)
    ELSE [k \in 1..5 |->
             Call(host, username, "password", password,
                  InstallCommands(kp.public_key)[k],
                  IF outcome.exits[k] = 0 THEN "Success" ELSE "ExitStatus1")]

\* operators at the password step of the wizard, on a host whose
\* authorized_keys holds nothing or somebody else's key
ProvisionInit ==
    /\ \E host_text \in HostTexts, user_text \in UserTexts :
          user_states = [u \in Users |-> WaitingForPassword(host_text, user_text)]
    /\ user_servers = EmptyDict
    /\ env_servers = <<>>
    /\ nkeys = 0
    /\ \E store \in {"", "ssh-ed25519 AAAA admin\n"} :
          authorized_keys = [h \in RemoteHosts |-> IF h = StoreHost THEN store ELSE ""]
    /\ allowed_users = {}
    /\ last = NoEvent
    /\ out = <<>>
    /\ calls = <<>>

\* text_handler at the password step (bot.py:345-373), the host answering the
\* installation as outcome says
Provision(u, text, outcome) ==
    /\ u \in DOMAIN user_states
    /\ user_states[u].step = "password"
    /\ LET state == [user_states[u] EXCEPT
                        !.temp = DictSet(user_states[u].temp, "password", Strip(text))]
           held == DictSet(user_states, u, state)
           host == state.temp["host"]
           username == state.temp["username"]
           password == state.temp["password"]
           kp == GenerateSshKeypair(nkeys + 1, username \o "@dockerbot")
           entry == ServerEntry(host, username, password, kp)
           result == SshCopyIdResult(outcome)
       IN  /\ nkeys' = nkeys + 1
           /\ calls' = CommandCalls(host, username, password, kp, outcome)
           /\ authorized_keys' =
                 IF outcome.connect = "Success"
                 THEN [authorized_keys EXCEPT
                          ![host] = SshCopyIdOnHost(@, kp.public_key, outcome.exits)]
                 ELSE authorized_keys
           /\ user_servers' = InstallKeyAndSaveServer(user_servers, u, entry, result)
           /\ last' = [Event("text", u, text, "") EXCEPT !.scrub = "deleted"]
           /\ IF result = "Success"
              THEN /\ user_states' = PopStateOnSuccess(held, u)
                   /\ out' = << Msg("trying", <<>>, <<>>),
                                Msg("done", <<Label(entry)>>, <<>>),
                                Msg("what_next", <<>>,
                                    <<Button("open servers", "ssh_menu")>>) >>
              ELSE /\ user_states' = PopStateOnFailure(held, u)
                   /\ out' = << Msg("trying", <<>>, <<>>),
                                Msg("install_failed", <<result>>, <<>>) >>
    /\ UNCHANGED <<env_servers, allowed_users>>

ProvisionNext ==
    \E u \in Users, text \in PasswordTexts, outcome \in ProvisionOutcomes :
       Provision(u, text, outcome)

ProvisionSpec == ProvisionInit /\ [][ProvisionNext]_vars

(***************************************************************************)
(* The local engine's menus, button by button                              *)
(***************************************************************************)
\* what the local engine may list: container names are [a-zA-Z0-9][a-zA-Z0-9_.-]*
LocalEngines ==
    { <<>>,
      <<[name |-> "web", status |-> "running", image |-> "nginx"]>>,
      << [name |-> "my_app", status |-> "running", image |-> "app:1"],
         [name |-> "my", status |-> "exited", image |-> "busybox"] >>,
      << [name |-> "db_1", status |-> "exited", image |-> "postgres"],
         [name |-> "web", status |-> "running", image |-> "nginx"] >>,
      << [name |-> "web", status |-> "exited", image |-> "nginx"],
         [name |-> "api", status |-> "running", image |-> "api:2"] >>,
      << [name |-> "cache_redis", status |-> "running", image |-> "redis"],
         [name |-> "cache", status |-> "running", image |-> "memcached"] >>,
      << [name |-> "job-1", status |-> "exited", image |-> "busybox"],
         [name |-> "a_b_c", status |-> "exited", image |-> "alpine"],
         [name |-> "a", status |-> "running", image |-> "alpine"] >> }

\* the bot after construction, an operator looking at the main menu
LocalInit ==
    /\ user_states = EmptyDict
    /\ user_servers = EmptyDict
    /\ env_servers = <<>>
    /\ nkeys = 0
    /\ authorized_keys = [h \in RemoteHosts |-> ""]
    /\ allowed_users = {}
    /\ last = NoEvent
    /\ out = <<MainMenu>>
    /\ calls = <<>>

\* /start: the main menu again
StartLocal(u) ==
    /\ last' = Event("command", u, "start", "")
    /\ out' = <<MainMenu>>
    /\ calls' = <<>>
    /\ UNCHANGED <<user_states, user_servers, env_servers, nkeys, authorized_keys, allowed_users>>

\* button_handler for the i-th button of the message on display, when it is a
\* button of the local engine's menus (bot.py:167-172, 203-206)
PressLocal(u, i) ==
    /\ out # <<>>
    /\ i \in 1..Len(out[1].buttons)
    /\ LET data == out[1].buttons[i].data
       IN  \/ /\ Route(data) = "list"
              /\ \E containers \in LocalEngines :
                    Render(u, data, LocalContainers(containers))
           \/ /\ Route(data) = "stats"
              /\ \E containers \in LocalEngines :
                    Render(u, data, LocalStats(containers))
           \/ /\ Route(data) = "back"
              /\ Render(u, data, Outcome(<<MainMenu>>, <<>>, ""))
           \/ /\ Route(data) = "container_"
              /\ \E containers \in LocalEngines :
                    Render(u, data, LocalContainerInfo(data, containers))
           \/ /\ Route(data) = "action_"
              /\ \E containers \in LocalEngines, ok \in BOOLEAN :
                    Render(u, data, LocalAction(data, containers, ok))

LocalNext ==
    \E u \in Users :
       \/ StartLocal(u)
       \/ \E i \in 1..4 : PressLocal(u, i)

LocalSpec == LocalInit /\ [][LocalNext]_vars

(***************************************************************************)
(* bot_with_compose.py: TelegramDockerBot                                  *)
(***************************************************************************)
\* self.allowed_users and user_id not in self.allowed_users
\* (bot_with_compose.py:29, 55)
NotAllowed(allowed, u) == allowed # {} /\ u \notin allowed

AccessDenied == Msg("access_denied", <<>>, <<>>)

\* the keyboard of start and of refresh_menu
ComposeMainMenu ==
    Msg("compose_main_menu", <<>>,
        << Button("containers", "list_containers"),
           Button("compose", "compose_menu"),
           Button("stats", "stats"),
           Button("images", "list_images"),
           Button("refresh", "refresh") >>)

\* a call of docker_compose_client
Compose(cmd, result) == Call("local", "", "compose", "", cmd, result)

\* the branch of the if / elif chain of button_callback that query.data takes
\* (bot_with_compose.py:59-72)
CallbackRoute(data) ==
    IF data = "list_containers" THEN "list_containers"
    ELSE IF data = "compose_menu" THEN "compose_menu"
    ELSE IF data = "stats" THEN "stats"
    ELSE IF data = "list_images" THEN "list_images"
    ELSE IF data = "refresh" THEN "refresh"
    ELSE IF StartsWith(data, "container_") THEN "container_"
    ELSE IF StartsWith(data, "compose_") THEN "compose_"
    ELSE "none"

\* s[:n]
FirstChars(s, n) == SubSeq(s, 1, IF Len(s) < n THEN Len(s) ELSE n)

\* what a client call answered: the list it returned, or that it raised
Returned(list) == [ok |-> TRUE, list |-> list]

Raised == [ok |-> FALSE, list |-> <<>>]

RECURSIVE ContainerIdButtons(_)
ContainerIdButtons(containers) ==
    IF Len(containers) = 0 THEN <<>>
    ELSE << Button(FirstChars(containers[1].name, 20), "container_" \o containers[1].id) >>
         \o ContainerIdButtons(Tail(containers))

\* show_containers of the compose bot; containers is what get_containers
\* returns, "error" when it raises
ShowContainers(answer) ==
    IF ~answer.ok
    THEN Outcome(<<Msg("containers_error", <<>>, <<>>)>>,
                 <<Docker("get_containers", "failed")>>, "")
    ELSE IF Len(answer.list) = 0
    THEN Outcome(<<Msg("no_containers", <<>>, <<>>)>>,
                 <<Docker("get_containers", "ok")>>, "")
    ELSE Outcome(<< Msg("containers", Names(answer.list),
                        ContainerIdButtons(answer.list)
                        \o <<Button("back", "refresh")>>) >>,
                 <<Docker("get_containers", "ok")>>, "")

RECURSIVE ComposeFileButtons(_)
ComposeFileButtons(files) ==
    IF Len(files) = 0 THEN <<>>
    ELSE << Button(FirstChars(files[1].name, 25),
                   "compose_status_" \o files[1].directory) >>
         \o ComposeFileButtons(Tail(files))

\* show_compose_menu; files is what find_compose_files returns
ShowComposeMenu(answer) ==
    IF ~answer.ok
    THEN Outcome(<<Msg("compose_menu_error", <<>>, <<>>)>>,
                 <<Compose("find_compose_files", "failed")>>, "")
    ELSE IF Len(answer.list) = 0
    THEN Outcome(<<Msg("no_compose_files", <<>>, <<>>)>>,
                 <<Compose("find_compose_files", "ok")>>, "")
    ELSE Outcome(<< Msg("compose_menu", Names(answer.list),
                        ComposeFileButtons(answer.list)
                        \o <<Button("back", "refresh")>>) >>,
                 <<Compose("find_compose_files", "ok")>>, "")

\* os.path.basename
Basename(path) == Split(path, "/")[Len(Split(path, "/"))]

\* show_compose_status; ok tells whether get_compose_status returns
ShowComposeStatus(compose_dir, ok) ==
    IF ~ok
    THEN Outcome(<<Msg("compose_status_error", <<>>, <<>>)>>,
                 <<Compose("get_compose_status " \o compose_dir, "failed")>>, "")
    ELSE Outcome(<< Msg("compose_status", <<Basename(compose_dir)>>,
                        << Button("start all", "compose_start_" \o compose_dir),
                           Button("stop all", "compose_stop_" \o compose_dir),
                           Button("restart all", "compose_restart_" \o compose_dir),
                           Button("logs", "compose_logs_" \o compose_dir),
                           Button("back", "compose_menu") >>) >>,
                 <<Compose("get_compose_status " \o compose_dir, "ok")>>, "")

\* start_compose_services, stop_compose_services and restart_compose_services:
\* the command, its confirmation and then the status again
ComposeServices(verb, compose_dir, ok, ok2) ==
    IF ~ok
    THEN Outcome(<<Msg("compose_" \o verb \o "_error", <<>>, <<>>)>>,
                 <<Compose(verb \o "_compose_services " \o compose_dir, "failed")>>, "")
    ELSE LET status == ShowComposeStatus(compose_dir, ok2)
         IN  Outcome(<<Msg("compose_" \o verb \o "_ok", <<>>, <<>>)>> \o status.out,
                     <<Compose(verb \o "_compose_services " \o compose_dir, "ok")>>
                     \o status.calls, "")

\* show_compose_logs
ShowComposeLogs(compose_dir, ok) ==
    IF ~ok
    THEN Outcome(<<Msg("compose_logs_error", <<>>, <<>>)>>,
                 <<Compose("get_compose_logs " \o compose_dir, "failed")>>, "")
    ELSE Outcome(<< Msg("compose_logs", <<Basename(compose_dir)>>,
                        <<Button("back", "compose_status_" \o compose_dir)>>) >>,
                 <<Compose("get_compose_logs " \o compose_dir, "ok")>>, "")

\* handle_compose_action
HandleComposeAction(data, ok, ok2) ==
    LET parts == Split(data, "_")
        compose_dir == Join(SubSeq(parts, 3, Len(parts)), "_")
    IN  IF parts[2] = "status" THEN ShowComposeStatus(compose_dir, ok)
        ELSE IF parts[2] \in {"start", "stop", "restart"}
        THEN ComposeServices(parts[2], compose_dir, ok, ok2)
        ELSE IF parts[2] = "logs" THEN ShowComposeLogs(compose_dir, ok)
        ELSE Outcome(<<>>, <<>>, "")

\* show_stats of the compose bot
ShowStats(ok) ==
    IF ~ok
    THEN Outcome(<<Msg("stats_error", <<>>, <<>>)>>, <<Docker("get_stats", "failed")>>, "")
    ELSE Outcome(<<Msg("stats", <<>>, <<Button("back", "refresh")>>)>>,
                 <<Docker("get_stats", "ok")>>, "")

\* show_images; images is what get_images returns
ShowImages(answer) ==
    IF ~answer.ok
    THEN Outcome(<<Msg("images_error", <<>>, <<>>)>>, <<Docker("get_images", "failed")>>, "")
    ELSE IF Len(answer.list) = 0
    THEN Outcome(<<Msg("no_images", <<>>, <<>>)>>, <<Docker("get_images", "ok")>>, "")
    ELSE Outcome(<<Msg("images", Names(answer.list), <<Button("back", "refresh")>>)>>,
                 <<Docker("get_images", "ok")>>, "")

\* handle_container_action; answer holds what get_container_info returns for
\* the id
HandleContainerAction(data, answer) ==
    LET container_id == Split(data, "_")[2]
        info == answer.list[1]
    IN  IF ~answer.ok
        THEN Outcome(<<Msg("container_info_error", <<>>, <<>>)>>,
                     <<Docker("get_container_info " \o container_id, "failed")>>, "")
        ELSE Outcome(
                << Msg("container_info", <<info.name, info.status, info.image>>,
                       (IF info.status = "running"
                        THEN << Button("stop", "stop_" \o container_id),
                                Button("restart", "restart_" \o container_id) >>
                        ELSE << Button("start", "start_" \o container_id) >>)
                       \o << Button("logs", "logs_" \o container_id),
                             Button("back", "list_containers") >>) >>,
                <<Docker("get_container_info " \o container_id, "ok")>>, "")

\* what the engine and the compose client may answer
EngineContainers ==
    { Raised, Returned(<<>>),
      Returned(
        << [id |-> "a1b2c3", name |-> "web", status |-> "Up 2 hours", image |-> "nginx"],
           [id |-> "d4e5f6", name |-> "db", status |-> "Exited (0)",
            image |-> "postgres"] >>) }

ContainerInfos ==
    { Raised,
      Returned(<<[name |-> "web", status |-> "running", image |-> "nginx"]>>),
      Returned(<<[name |-> "db", status |-> "exited", image |-> "postgres"]>>) }

EngineImages == { Raised, Returned(<<>>), Returned(<<[name |-> "nginx:latest"]>>) }

ComposeFiles ==
    { Raised, Returned(<<>>),
      Returned(<<[name |-> "my_app", directory |-> "/srv/my_app"]>>) }

\* callback data that no keyboard on display carries: stale or hand-made
ForgedData ==
    { "list_containers", "compose_menu", "stats", "list_images", "refresh",
      "container_a1b2c3", "compose_stop_/srv/my_app", "compose_logs_/srv/my_app",
      "compose_", "bogus" }

\* the message the operator is looking at: the last one the bot rendered
OnDisplay == IF out = <<>> THEN Msg("none", <<>>, <<>>) ELSE out[Len(out)]

\* what a handler leaves in the chat: the messages it rendered, or the message
\* that was there when it rendered none
Displayed(outcome) == IF outcome.out = <<>> THEN out ELSE outcome.out

ComposeRender(u, data, outcome) ==
    /\ last' = Event("button", u, data, outcome.raised)
    /\ out' = Displayed(outcome)
    /\ calls' = outcome.calls
    /\ UNCHANGED <<user_states, user_servers, env_servers, nkeys, authorized_keys,
                   allowed_users>>

\* the bot after construction, ALLOWED_USERS naming any of the operators or
\* nobody
ComposeInit ==
    /\ user_states = EmptyDict
    /\ user_servers = EmptyDict
    /\ env_servers = <<>>
    /\ nkeys = 0
    /\ authorized_keys = [h \in RemoteHosts |-> ""]
    /\ allowed_users \in SUBSET Users
    /\ last = NoEvent
    /\ out = <<>>
    /\ calls = <<>>

\* start of the compose bot (bot_with_compose.py:25-47)
ComposeStart(u) ==
    /\ last' = Event("command", u, "start", "")
    /\ out' = IF NotAllowed(allowed_users, u) THEN <<AccessDenied>>
              ELSE <<ComposeMainMenu>>
    /\ calls' = <<>>
    /\ UNCHANGED <<user_states, user_servers, env_servers, nkeys, authorized_keys,
                   allowed_users>>

\* button_callback that dispatches without looking at the allow-list
ButtonCallbackUnchecked(u, data) ==
    \/ ComposeRender(u, data, AnswerFails)
    \/ /\ CallbackRoute(data) = "list_containers"
       /\ \E containers \in EngineContainers :
             ComposeRender(u, data, ShowContainers(containers))
    \/ /\ CallbackRoute(data) = "container_"
       /\ \E info \in ContainerInfos :
             ComposeRender(u, data, HandleContainerAction(data, info))
    \/ /\ CallbackRoute(data) \notin {"list_containers", "container_"}
       /\ ComposeRender(u, data, Outcome(<<ComposeMainMenu>>, <<>>, ""))

\* button_callback (bot_with_compose.py:49-72)
ButtonCallback(u, data) ==
    \/ ComposeRender(u, data, AnswerFails)
    \/ /\ NotAllowed(allowed_users, u)
       /\ ComposeRender(u, data, Outcome(<<AccessDenied>>, <<>>, ""))
    \/ /\ ~NotAllowed(allowed_users, u)
       /\ CallbackRoute(data) = "list_containers"
       /\ \E containers \in EngineContainers :
             ComposeRender(u, data, ShowContainers(containers))
    \/ /\ ~NotAllowed(allowed_users, u)
       /\ CallbackRoute(data) = "compose_menu"
       /\ \E files \in ComposeFiles :
             ComposeRender(u, data, ShowComposeMenu(files))
    \/ /\ ~NotAllowed(allowed_users, u)
       /\ CallbackRoute(data) = "stats"
       /\ \E ok \in BOOLEAN : ComposeRender(u, data, ShowStats(ok))
    \/ /\ ~NotAllowed(allowed_users, u)
       /\ CallbackRoute(data) = "list_images"
       /\ \E images \in EngineImages : ComposeRender(u, data, ShowImages(images))
    \/ /\ ~NotAllowed(allowed_users, u)
       /\ CallbackRoute(data) = "refresh"
       /\ ComposeRender(u, data, Outcome(<<ComposeMainMenu>>, <<>>, ""))
    \/ /\ ~NotAllowed(allowed_users, u)
       /\ CallbackRoute(data) = "container_"
       /\ \E info \in ContainerInfos :
             ComposeRender(u, data, HandleContainerAction(data, info))
    \/ /\ ~NotAllowed(allowed_users, u)
       /\ CallbackRoute(data) = "compose_"
       /\ \E ok \in BOOLEAN, ok2 \in BOOLEAN :
             ComposeRender(u, data, HandleComposeAction(data, ok, ok2))
    \/ /\ ~NotAllowed(allowed_users, u)
       /\ CallbackRoute(data) = "none"
       /\ ComposeRender(u, data, Outcome(<<>>, <<>>, ""))

\* the operator presses the i-th button of the message on display
PressOnDisplay(u, i) ==
    /\ i \in 1..Len(OnDisplay.buttons)
    /\ ButtonCallback(u, OnDisplay.buttons[i].data)

ComposeNext ==
    \E u \in Users :
       \/ ComposeStart(u)
       \/ \E i \in 1..5 : PressOnDisplay(u, i)
       \/ \E data \in ForgedData : ButtonCallback(u, data)

ComposeSpec == ComposeInit /\ [][ComposeNext]_vars

(***************************************************************************)
(* Properties                                                              *)
(***************************************************************************)
StepOf(states, u) == IF u \in DOMAIN states THEN states[u].step ELSE "none"

Range(seq) == {seq[i] : i \in 1..Len(seq)}

\* every entry of the registry, of either scope
AllRecords(servers_dict, envs) ==
    Range(envs) \cup UNION {Range(servers_dict[v]) : v \in DOMAIN servers_dict}

\* every value held by a session or by an entry of the registry
HeldValues ==
    UNION {{user_states[v].temp[k] : k \in DOMAIN user_states[v].temp} :
           v \in DOMAIN user_states}
    \cup UNION {{r[f] : f \in DOMAIN r} : r \in AllRecords(user_servers, env_servers)}

\* the update just handled was a button that reached a branch of the dispatcher
Dispatched == last.kind = "button" /\ last.raised # "TelegramError"

\* the update just handled was a text consumed at the password step
PasswordStepHandled == last.kind = "text" /\ last.step = "password"

\* the handler just run made its installation attempt, which ended with result
Attempted(cs, result) == Len(cs) = 1 /\ cs[1].auth = "password" /\ cs[1].result = result

NextStep(step) ==
    CASE step = "host" -> "username"
      [] step = "username" -> "password"
      [] OTHER -> "none"

\* C1: once the text taken at the password step has been handled, the sender
\* has no wizard session and the password is held by no session and by no
\* entry of the registry, whether the installation succeeded or failed.
C1_PasswordDiscarded ==
    PasswordStepHandled =>
        /\ last.user \notin DOMAIN user_states
        /\ Strip(last.data) \notin HeldValues

\* C2: an entry is added to the registry only by a handler whose installation
\* attempt reported success; when the attempt fails the sender's session is
\* gone and the registry is what it was before.
C2_RecordOnlyAfterSuccess ==
    [][ /\ (last'.kind = "text" /\ last'.step = "password"
            /\ \E e \in SshErrors : Attempted(calls', e))
           => /\ user_servers' = user_servers
              /\ env_servers' = env_servers
              /\ last'.user \notin DOMAIN user_states'
        /\ ~(AllRecords(user_servers', env_servers')
               \subseteq AllRecords(user_servers, env_servers))
           => /\ last'.kind = "text" /\ last'.step = "password"
              /\ Attempted(calls', "Success") ]_vars

\* C2 witness: the installation failed with a network error while the sender
\* already had a server
C2_Witness ==
    /\ PasswordStepHandled
    /\ Attempted(calls, "NetworkError")
    /\ last.user \in DOMAIN user_servers

\* C3: the handler of a text taken at the password step makes exactly one
\* installation attempt, with that password: never none, never a second.
C3_ExactlyOneInstall ==
    PasswordStepHandled =>
        /\ Len(calls) = 1
        /\ calls[1].auth = "password"
        /\ calls[1].cred = Strip(last.data)

\* C4: a text from an operator with a session is stored under the name of
\* the session's step and moves the session by exactly one step, host to
\* username to password to no session; no step is skipped or repeated.
C4_StepOrder ==
    (last.kind = "text" /\ last.step # "none") =>
        /\ StepOf(user_states, last.user) = NextStep(last.step)
        /\ last.step \in {"host", "username"}
              => user_states[last.user].temp[last.step] = Strip(last.data)

\* C5: an operator has at most one session, and once add-server has started
\* the operator's session is a fresh one at the host step without any field,
\* whatever session the operator had before.
C5_FreshSession ==
    /\ DOMAIN user_states \subseteq Users
    /\ (Dispatched /\ last.data = "ssh_add")
          => /\ last.user \in DOMAIN user_states
             /\ user_states[last.user].flow = "add_server"
             /\ user_states[last.user].step = "host"
             /\ DOMAIN user_states[last.user].temp = {}

\* C5 witness: add-server pressed by an operator whose session was waiting for
\* the password
C5_Witness ==
    /\ Dispatched
    /\ last.data = "ssh_add"
    /\ last.step = "password"

\* C6: after the start command or a button other than add-server from an
\* operator who had a session, that session is gone.
C6_UnrelatedCommandEndsSession ==
    (last.kind \in {"command", "button"} /\ last.data # "ssh_add"
     /\ last.step # "none")
        => last.user \notin DOMAIN user_states

\* C7: a text of an operator with a session is taken as the input of the
\* session's step: it is stored under the name of the step, or, at the
\* password step, used for the installation attempt.  A text of an operator
\* without a session changes neither the sessions nor the registry, and
\* nothing is rendered or called.
C7_TextConsumedOnlyWithSession ==
    [][ last'.kind = "text"
          => LET u == last'.user
                 before == StepOf(user_states, u)
                 text == Strip(last'.data)
             IN  /\ before = "none"
                    => /\ user_states' = user_states
                       /\ user_servers' = user_servers
                       /\ env_servers' = env_servers
                       /\ out' = <<>>
                       /\ calls' = <<>>
                 /\ before # "none"
                    => /\ Len(out') > 0
                       /\ \/ /\ u \in DOMAIN user_states'
                             /\ before \in DOMAIN user_states'[u].temp
                             /\ user_states'[u].temp[before] = text
                          \/ /\ before = "password"
                             /\ Len(calls') = 1
                             /\ calls'[1].cred = text ]_vars

\* C7 witness: a text from an operator without a session, while another
\* operator is in the middle of the wizard
C7_Witness ==
    /\ last.kind = "text"
    /\ last.step = "none"
    /\ out = <<>>
    /\ DOMAIN user_states # {}

\* C8: a run whose installation succeeds appends exactly one entry to the
\* list of the operator who ran it, with the host and user name the session
\* had collected, leaves every other entry as it was and ends with the
\* operator's session cleared; the confirmation names the entry's label.
C8_SuccessfulRun ==
    [][ (last'.kind = "text" /\ last'.step = "password"
         /\ Attempted(calls', "Success"))
          => LET u == last'.user
                 mine == DictGetList(user_servers', u)
                 added == mine[Len(mine)]
             IN  /\ Len(mine) = Len(DictGetList(user_servers, u)) + 1
                 /\ SubSeq(mine, 1, Len(mine) - 1) = DictGetList(user_servers, u)
                 /\ added.host = user_states[u].temp["host"]
                 /\ added.username = user_states[u].temp["username"]
                 /\ added.host = "10.0.0.5"
                 /\ added.username = "deploy"
                 /\ Label(added) = "deploy@10.0.0.5"
                 /\ out'[2] = Msg("done", <<"deploy@10.0.0.5">>, <<>>)
                 /\ \A v \in Users \ {u} :
                       DictGetList(user_servers', v) = DictGetList(user_servers, v)
                 /\ env_servers' = env_servers
                 /\ u \notin DOMAIN user_states' ]_vars

\* C8 witness: a successful run of an operator who already had one server
C8_Witness ==
    /\ PasswordStepHandled
    /\ Attempted(calls, "Success")
    /\ Len(DictGetList(user_servers, last.user)) = 2

\* private keys of the entries an operator may use: the shared ones and the
\* operator's own
KeysFor(u) ==
    {r.private_key : r \in Range(env_servers) \cup Range(DictGetList(user_servers, u))}

\* C9: the list of an operator changes only by an update of that operator: it
\* grows by one entry at the end of the operator's own successful run and
\* loses one entry by the operator's own delete confirmation; and every
\* key-authenticated call a handler makes uses the key of a shared entry or
\* of an entry of the sender, never of another operator's entry.
C9_OwnRecordsOnly ==
    [][ /\ \A a \in Users :
              LET before == DictGetList(user_servers, a)
                  after == DictGetList(user_servers', a)
              IN  after # before
                    => /\ last'.user = a
                       /\ \/ /\ last'.kind = "text" /\ last'.step = "password"
                             /\ Attempted(calls', "Success")
                             /\ Len(after) = Len(before) + 1
                             /\ SubSeq(after, 1, Len(before)) = before
                          \/ /\ last'.kind = "button"
                             /\ Route(last'.data) = "ssh_delete_confirm_"
                             /\ \E p \in 1..Len(before) : after = RemoveAt(before, p)
        /\ \A i \in 1..Len(calls') :
              calls'[i].auth = "pkey" => calls'[i].cred \in KeysFor(last'.user) ]_vars

\* C9 witness: an operator without servers pressed the first user entry while
\* another operator has one, and no server was found
C9_Witness ==
    /\ Dispatched
    /\ last.data = "ssh_connect_user_0"
    /\ last.user \notin DOMAIN user_servers
    /\ DOMAIN user_servers # {}
    /\ out = ServerNotFound.out
    /\ calls = <<>>

\* C10: no update changes the entries loaded from the environment or their
\* order.
C10_EnvNeverModified == [][env_servers' = env_servers]_vars

\* C10 witness: a delete confirmation naming the first environment entry was
\* refused
C10_Witness ==
    /\ Dispatched
    /\ last.data = "ssh_delete_confirm_env_0"
    /\ Len(env_servers) > 0
    /\ out = <<CannotDelete>>

\* the server reference a server button carries: query.data without the prefix
\* of its branch (bot.py:178, 181, 184, 187)
ServerIdOf(data) == Remove(data, Route(data))

\* the button asks to delete, or to confirm the deletion of, an entry
DeleteRequest(data) == Route(data) \in {"ssh_delete_", "ssh_delete_confirm_"}

\* C11: a dispatched delete or delete-confirm button whose reference names an
\* Environment index is answered by the refusal, and neither the Environment
\* entries nor any operator's entries change.
C11_EnvDeleteRefused ==
    [][ (last'.kind = "button" /\ last'.raised # "TelegramError"
         /\ DeleteRequest(last'.data)
         /\ StartsWith(ServerIdOf(last'.data), "env_"))
          => /\ out' = <<CannotDelete>>
             /\ user_servers' = user_servers
             /\ env_servers' = env_servers ]_vars

\* C11 witness: the delete button of the first Environment entry was refused
\* while some operator has an entry
C11_Witness ==
    /\ Dispatched
    /\ last.data = "ssh_delete_env_0"
    /\ Len(env_servers) > 0
    /\ DOMAIN user_servers # {}
    /\ out = <<CannotDelete>>

\* C12: what a delete confirmation of an existing Environment entry renders
\* differs from what the confirmation of a User index that does not exist
\* renders.
C12_ForbiddenDistinctFromNotFound ==
    (Dispatched /\ Route(last.data) = "ssh_delete_confirm_"
     /\ ResolveServerById(ServerIdOf(last.data),
                          DictGetList(user_servers, last.user),
                          env_servers).scope = "env")
        => LET mine == DictGetList(user_servers, last.user)
           IN  out # DeleteReply("user_" \o Str(Len(mine)), mine, env_servers)

\* the button carries a server reference
ServerButton(data) ==
    Route(data) \in {"ssh_connect_", "ssh_stats_", "ssh_delete_", "ssh_delete_confirm_"}

\* the server menus among the messages just rendered
MenusRendered ==
    {i \in 1..Len(out) : out[i].text \in {"ssh_menu", "ssh_menu_empty"}}

\* C13: the i-th User entry of an operator (from 0) resolves from user_i and
\* the i-th Environment entry from env_i, however many entries the other scope
\* has; and in a server menu just rendered the i-th User entry is listed
\* under user_i, and every server button resolves to the entry whose label the
\* button shows.
C13_ScopeLocalIndices ==
    /\ \A u \in Users :
          LET mine == DictGetList(user_servers, u)
          IN  /\ \A i \in 1..Len(mine) :
                    ResolveServerById("user_" \o Str(i - 1), mine, env_servers)
                      = [scope |-> "user", pos |-> i]
              /\ \A i \in 1..Len(env_servers) :
                    ResolveServerById("env_" \o Str(i - 1), mine, env_servers)
                      = [scope |-> "env", pos |-> i]
    /\ \A m \in MenusRendered :
          LET mine == DictGetList(user_servers, last.user)
              buttons == out[m].buttons
          IN  /\ \A i \in 1..Len(mine) :
                    \E k \in 1..Len(buttons) :
                       buttons[k] = Button(Label(mine[i]),
                                           "ssh_connect_user_" \o Str(i - 1))
              /\ \A k \in 1..Len(buttons) :
                    ServerButton(buttons[k].data)
                      => LET r == ResolveServerById(ServerIdOf(buttons[k].data),
                                                    mine, env_servers)
                             label == Label(Resolved(r, mine, env_servers))
                         IN  /\ r.scope # "None"
                             /\ buttons[k].label
                                  \in {label, "stats: " \o label, "delete: " \o label}

\* C13 witness: the menu rendered for an operator with one entry while two
\* Environment entries are loaded; the entry is listed under user_0
C13_Witness ==
    /\ Dispatched
    /\ last.data = "ssh_menu"
    /\ Len(env_servers) = 2
    /\ Len(DictGetList(user_servers, last.user)) = 1
    /\ \E k \in 1..Len(out[1].buttons) :
          out[1].buttons[k].data = "ssh_delete_user_0"

\* server references, entity names and action verbs the round trip is checked
\* for; the second name holds the delimiter, a percent sign and what reads as
\* an escape
RefIds == {"env_0", "user_0"}

EntityNames == {"web", "|%7C"}

Verbs == {"start", "stop", "restart"}

\* what each encoded button stands for: its data, the server reference, the
\* entity name and the command the handler is to run first
EncodedButtons ==
    {[data |-> InfoToken(id, name), id |-> id, name |-> name, cmd |-> InfoCmd(name)] :
        id \in RefIds, name \in EntityNames}
    \cup {[data |-> LogsToken(id, name), id |-> id, name |-> name,
           cmd |-> "docker logs --tail 50 " \o name] :
        id \in RefIds, name \in EntityNames}
    \cup UNION {{[data |-> ActionToken(id, verb, name), id |-> id, name |-> name,
                  cmd |-> "docker " \o verb \o " " \o name] :
                    id \in RefIds, name \in EntityNames} : verb \in Verbs}

\* C14: a button whose data encodes a server reference, a verb and an entity
\* name is decoded to the same three: the handler addresses the entry the
\* reference resolves to and runs its command on exactly that name, also when
\* the name holds the delimiter or a percent sign.
C14_TokenRoundTrip ==
    (Dispatched /\ Route(last.data) = "sshc|") =>
      \A b \in EncodedButtons :
        last.data = b.data =>
          LET mine == DictGetList(user_servers, last.user)
              r == ResolveServerById(b.id, mine, env_servers)
              srv == Resolved(r, mine, env_servers)
          IN  r.scope # "None" =>
                /\ Len(calls) >= 1
                /\ calls[1].cmd = b.cmd
                /\ calls[1].host = srv.host
                /\ calls[1].cred = srv.private_key
                /\ Len(out) > 0 => out[1].args[1] = b.name

\* C14 witness: the stop button of the entity named with delimiter and percent
\* sign ran the command and rendered the entity's card
C14_Witness ==
    /\ Dispatched
    /\ last.data = ActionToken("env_0", "stop", "|%7C")
    /\ Len(calls) = 2
    /\ calls[1].cmd = "docker stop |%7C"
    /\ Len(out) = 1

\* C15: a token whose last field, the entity name, holds the delimiter itself
\* is decoded with everything after the fixed fields as the name.
C15_RemainderIsName ==
    (Dispatched /\ last.data = "sshc|info|env_0|a|b" /\ Len(env_servers) > 0)
        => /\ Len(calls) = 1
           /\ calls[1].cmd = InfoCmd("a|b")

\* a server reference that is neither a bare number nor env_<integer> nor
\* user_<integer>: no scope tag, an unrecognized one, or an index that is no
\* integer
MalformedRef(id) ==
    /\ ~IsDigit(id)
    /\ \/ ~Contains(id, "_")
       \/ LET parts == SplitN(id, "_", 1)
          IN  parts[1] \notin {"env", "user"} \/ ~PyInt(parts[2]).ok

\* a container token whose number of fields fits none of the three formats
WrongFieldCount(data) ==
    LET parts == Split(data, "|")
        n == Len(parts)
    IN  ~ \/ n = 4 /\ parts[2] \in {"info", "logs"}
          \/ n = 5 /\ parts[2] = "action"

\* the data of the button fails decoding
DecodeFails(data) ==
    \/ ServerButton(data) /\ MalformedRef(ServerIdOf(data))
    \/ /\ Route(data) = "sshc|"
       /\ \/ WrongFieldCount(data)
          \/ MalformedRef(Split(data, "|")[3])

\* the messages that deny a request
Denials == {"server_not_found", "cannot_delete", "unknown_action"}

\* C16: a dispatched button whose data fails decoding is answered by a denial
\* message.
C16_InvalidTokenDenied ==
    (Dispatched /\ DecodeFails(last.data))
        => /\ Len(out) = 1
           /\ out[1].text \in Denials

\* C17: a button whose data fails decoding changes neither the registry nor
\* any session, and its handler makes no remote call.
C17_InvalidTokenNoEffect ==
    [][ (last'.kind = "button" /\ DecodeFails(last'.data))
          => /\ user_servers' = user_servers
             /\ env_servers' = env_servers
             /\ user_states' = user_states
             /\ calls' = <<>> ]_vars

\* C17 witness: a container token with a missing field was handled while an
\* operator is in the wizard and the registry holds entries of both scopes
C17_Witness ==
    /\ Dispatched
    /\ last.data = "sshc|info|abc"
    /\ DOMAIN user_states # {}
    /\ DOMAIN user_servers # {}
    /\ Len(env_servers) > 0
    /\ calls = <<>>

\* C18: a reference that is a bare number n resolves as user_n does: to the
\* operator's own entry at index n when there is one, to nothing otherwise,
\* and never to an Environment entry; the button ssh_connect_0 addresses the
\* operator's first entry.
C18_BareIntegerIsUserIndex ==
    /\ \A u \in Users :
          LET mine == DictGetList(user_servers, u)
          IN  \A n \in 0..Len(mine) :
                 LET bare == ResolveServerById(Str(n), mine, env_servers)
                 IN  /\ bare = ResolveServerById("user_" \o Str(n), mine, env_servers)
                     /\ bare.scope # "env"
                     /\ bare = IF n < Len(mine) THEN [scope |-> "user", pos |-> n + 1]
                               ELSE NotResolved
    /\ (Dispatched /\ last.data = "ssh_connect_0")
          => LET mine == DictGetList(user_servers, last.user)
             IN  IF Len(mine) = 0
                 THEN out = ServerNotFound.out /\ calls = <<>>
                 ELSE /\ Len(calls) = 1
                      /\ calls[1].host = mine[1].host
                      /\ calls[1].cred = mine[1].private_key

\* C18 witness: ssh_connect_0 pressed by an operator with an entry while an
\* Environment entry is loaded; the call went to the operator's own entry
C18_Witness ==
    /\ Dispatched
    /\ last.data = "ssh_connect_0"
    /\ Len(env_servers) > 0
    /\ Len(DictGetList(user_servers, last.user)) > 0
    /\ Len(calls) = 1
    /\ calls[1].host = "10.0.0.5"

\* the lines of a file that are not the key, in order
OtherLines(content, key) == SelectSeq(FileLines(content), LAMBDA l : l # key)

\* the key was installed by one of the calls
Installed(cs, key) ==
    \E i \in 1..Len(cs) : cs[i].cmd = "ssh_copy_id " \o key /\ cs[i].result = "Success"

\* C19: installing a key is idempotent on the remote key store: an install
\* leaves every line other than the key as it was, and once the key has been
\* installed two or more times exactly one line of the store is the key.
C19_InstallIdempotent ==
    [][ \A kp \in StoreKeyPairs :
           ( /\ Len(calls') = Len(calls) + 1
             /\ calls'[Len(calls')].cmd = "ssh_copy_id " \o kp.public_key
             /\ calls'[Len(calls')].result = "Success" )
           => /\ OtherLines(authorized_keys'[StoreHost], kp.public_key)
                    = OtherLines(authorized_keys[StoreHost], kp.public_key)
              /\ Installed(calls, kp.public_key)
                    => /\ authorized_keys'[StoreHost] = authorized_keys[StoreHost]
                       /\ Len(SelectSeq(FileLines(authorized_keys'[StoreHost]),
                                        LAMBDA l : l = kp.public_key)) = 1
      ]_vars

\* C20 as stated: the result of a remote command is its stderr exactly when
\* stderr is non-empty and stdout is empty, and its stdout in every other case.
C20_MergeRule ==
    \A i \in 1..Len(calls) :
       out[i] = IF calls[i].result.stderr # "" /\ calls[i].result.stdout = ""
                THEN calls[i].result.stderr
                ELSE calls[i].result.stdout

\* C20 amended: the result of a remote command is its stderr without the
\* surrounding whitespace exactly when that is non-empty and stdout without its
\* surrounding whitespace is empty, and stdout without its surrounding
\* whitespace in every other case.
C20_MergeRuleTrimmed ==
    \A i \in 1..Len(calls) :
       out[i] = IF Strip(calls[i].result.stderr) # "" /\ Strip(calls[i].result.stdout) = ""
                THEN Strip(calls[i].result.stderr)
                ELSE Strip(calls[i].result.stdout)

\* C20 witness: a command that wrote to stderr only, then one that wrote to
\* both; the first result is the diagnostics, the second the output
C20_Witness ==
    /\ Len(calls) = 2
    /\ calls[1].result.stdout = ""
    /\ calls[1].result.stderr = "WARN x\n"
    /\ out[1] = "WARN x"
    /\ calls[2].result.stdout = "web\n"
    /\ calls[2].result.stderr = "WARN x\n"
    /\ out[2] = "web"


\* the handler just run made a remote command that failed with one of the
\* errors of ssh.connect / exec_command
RemoteCommandFailed ==
    \E i \in 1..Len(calls) : calls[i].auth = "pkey" /\ calls[i].result \in SshErrors

\* C21: when a remote operational command fails with a network, authentication
\* or timeout error, the operator gets a denial message (the handler renders
\* one and returns), and the registry and the sessions are as they were.
C21_RemoteFailureDenied ==
    (Dispatched /\ RemoteCommandFailed) => (out # <<>> /\ last.raised = "")


\* C22 as stated: while a provisioning or remote-execution call of one operator
\* is in flight, an update of another operator can be handed to its handler.
C22_OthersServedDuringCall ==
    InFlight
       => \E v \in Users \ {last.user} :
             \/ \E data \in LoopButtons : ENABLED Accept(v, data)
             \/ \E text \in PasswordTexts : ENABLED AcceptText(v, text)

\* the calls of operator u that are in flight
InFlightOf(u) ==
    {i \in 1..Len(calls) : calls[i].result = "in_flight" /\ last.user = u}

\* C23: in every reachable state each operator has at most one provisioning or
\* remote-execution call in flight.
C23_OneCallPerOperator ==
    \A u \in Users : Cardinality(InFlightOf(u)) <= 1

\* C23 witness: the second command of a lifecycle action is in flight, the
\* first having returned
C23_Witness ==
    /\ last.data = ActionToken("env_0", "stop", "web")
    /\ Len(calls) = 2
    /\ calls[1].result = "ok"
    /\ calls[2].result = "in_flight"
    /\ Cardinality(InFlightOf(last.user)) = 1


\* the configured entries that have every field, by position
Configured == {i \in 1..Len(EnvConfig) : ValidConfig(EnvConfig[i])}

\* C24: the startup pass attempts the configured entries in order; a failed
\* entry is left out and the later ones are still attempted: a key pair was
\* generated for each configured entry, the Environment entries are configured
\* entries in configuration order, and a configured entry is among them exactly
\* when its key was installed on its account.
C24_StartupPass ==
    /\ nkeys >= Cardinality(Configured)
    /\ \E idx \in [1..Len(env_servers) -> Configured] :
          /\ \A i, j \in 1..Len(env_servers) : i < j => idx[i] < idx[j]
          /\ \A i \in 1..Len(env_servers) :
                /\ env_servers[i].host = EnvConfig[idx[i]].host
                /\ env_servers[i].username = EnvConfig[idx[i]].username
                /\ GrepQxF(authorized_keys[env_servers[i].host],
                           env_servers[i].public_key)
    /\ \A c \in Configured :
          authorized_keys[EnvConfig[c].host] # ""
             => \E i \in 1..Len(env_servers) : env_servers[i].host = EnvConfig[c].host

\* C24 witness: the first configured entry failed and the last one is
\* registered, with the second key pair generated
C24_Witness ==
    /\ Len(env_servers) = 1
    /\ env_servers[1].host = "192.168.0.3"
    /\ env_servers[1].private_key = "PRIVATE-KEY-2"
    /\ authorized_keys["192.168.0.1"] = ""
    /\ authorized_keys["192.168.0.3"] # ""


\* the lines of the command's output that are not blank
OutputLines(stdout) == SelectSeq(Split(stdout, "\n"), LAMBDA l : Strip(l) # "")

\* the fields of the lines that have exactly three fields
ThreeFieldRows(stdout) ==
    LET kept == SelectSeq(OutputLines(stdout), LAMBDA l : Len(Split(l, "|")) = 3)
    IN  [i \in 1..Len(kept) |-> Split(kept[i], "|")]

\* the lines that have three fields or more, the third field being all that
\* follows the second separator
ThreeOrMoreFieldRows(stdout) ==
    LET kept == SelectSeq(OutputLines(stdout), LAMBDA l : Len(Split(l, "|")) >= 3)
    IN  [i \in 1..Len(kept) |->
            LET f == Split(kept[i], "|")
            IN  <<f[1], f[2], Join(SubSeq(f, 3, Len(f)), "|")>>]

\* a listing was shown for a command that ran
ListingShown == last.kind = "button" /\ Len(calls) = 1 /\ calls[1].result.err = ""

\* C25 as stated: blank lines are ignored, every line that does not have
\* exactly three fields is skipped, every line that has is reported, and no
\* line aborts the listing.
C25_ExactlyThreeFields ==
    ListingShown
       => /\ last.raised = ""
          /\ Len(out) = 1
          /\ IF OutputLines(calls[1].result.stdout) = <<>>
             THEN out[1].text \in {"no_remote_containers", "no_remote_running"}
             ELSE out[1].args = Flatten(ThreeFieldRows(calls[1].result.stdout))

\* C25 amended: blank lines are ignored, every line with fewer than three
\* fields is skipped, every line with three fields or more is reported, what
\* follows the second separator being its third field, and no line aborts the
\* listing.
C25_ThreeOrMoreFields ==
    ListingShown
       => /\ last.raised = ""
          /\ Len(out) = 1
          /\ IF OutputLines(calls[1].result.stdout) = <<>>
             THEN out[1].text \in {"no_remote_containers", "no_remote_running"}
             ELSE out[1].args = Flatten(ThreeOrMoreFieldRows(calls[1].result.stdout))

\* C25 witness: a two-field line before a row, and the row is reported
C25_Witness ==
    /\ ListingShown
    /\ calls[1].result.stdout = "web|Up 2 hours\ndb|Exited (0)|postgres\n"
    /\ out[1].text = "remote_containers"
    /\ out[1].args = <<"db", "Exited (0)", "postgres">>


\* C26: when deleting the operator's password message fails, the wizard goes
\* on as after a deletion that succeeded: the handler returns without an
\* exception, provisioning is attempted once and the session is discarded.
C26_ScrubFailureIgnored ==
    (PasswordStepHandled /\ last.scrub = "delete_failed")
       => /\ last.raised = ""
          /\ Len(calls) = 1
          /\ calls[1].auth = "password"
          /\ last.user \notin DOMAIN user_states


\* the passwords the bot is given: typed into the wizard or configured
Passwords ==
    ({Strip(t) : t \in PasswordTexts}
        \cup {EnvConfig[i].password : i \in 1..Len(EnvConfig)}) \ {""}

\* the server reference a button addresses
AddressedId(data) ==
    IF Route(data) = "sshc|"
    THEN (IF Len(Split(data, "|")) >= 3 THEN Split(data, "|")[3] ELSE "")
    ELSE ServerIdOf(data)

\* C27: no entry of the registry, of either scope, holds a password; a call
\* authenticates with a password only to install a key; and every operational
\* remote command authenticates with the private key of the entry the request
\* resolves to.
C27_PasswordsConfined ==
    /\ \A r \in AllRecords(user_servers, env_servers) :
          /\ "password" \notin DOMAIN r
          /\ \A f \in DOMAIN r : r[f] \notin Passwords
    /\ \A i \in 1..Len(calls) :
          /\ calls[i].auth = "password"
                => /\ StartsWith(calls[i].cmd, "ssh_copy_id ")
                   /\ last.kind = "text"
                   /\ last.step = "password"
          /\ calls[i].auth = "pkey"
                => LET mine == DictGetList(user_servers, last.user)
                       r == ResolveServerById(AddressedId(last.data), mine, env_servers)
                   IN  /\ last.kind = "button"
                       /\ r.scope \in {"user", "env"}
                       /\ calls[i].host = Resolved(r, mine, env_servers).host
                       /\ calls[i].cred = Resolved(r, mine, env_servers).private_key

\* C27 witness: the card of a container on an operator's own server, the
\* command authenticated with the key of that entry, the entry having been
\* provisioned with a password
C27_Witness ==
    /\ Dispatched
    /\ Route(last.data) = "sshc|"
    /\ Len(calls) = 1
    /\ calls[1].auth = "pkey"
    /\ calls[1].host = "10.0.0.5"
    /\ calls[1].cred = DictGetList(user_servers, last.user)[1].private_key


\* the wizard run of the update just handled ended in Done
WizardDone == PasswordStepHandled /\ Attempted(calls, "Success")

\* C28: the confirmation rendered when a wizard run ends in Done carries the
\* label username@host of the new entry and nothing else, and no message of
\* that handler contains the private key, the public key or the password.
C28_ConfirmationOnlyLabel ==
    WizardDone
       => LET mine == DictGetList(user_servers, last.user)
              entry == mine[Len(mine)]
              secrets == {entry.private_key, entry.public_key, Strip(last.data)}
          IN  /\ Len(out) = 3
              /\ out[2].text = "done"
              /\ out[2].args = <<entry.username \o "@" \o entry.host>>
              /\ out[2].buttons = <<>>
              /\ \A i \in 1..Len(out) :
                    /\ \A j \in 1..Len(out[i].args) :
                          \A s \in secrets : ~Contains(out[i].args[j], s)
                    /\ \A j \in 1..Len(out[i].buttons) :
                          \A s \in secrets :
                             /\ ~Contains(out[i].buttons[j].label, s)
                             /\ ~Contains(out[i].buttons[j].data, s)

\* C28 witness: a wizard run that ended in Done and confirmed deploy@10.0.0.5
C28_Witness ==
    /\ WizardDone
    /\ Len(out) = 3
    /\ out[2].text = "done"
    /\ out[2].args = <<"deploy@10.0.0.5">>


\* the reference has the form scope_index with an integer index that is not a
\* position of the addressed list: negative, or not below its length
OutOfRange(server_id, servers_of_user, envs) ==
    /\ Contains(server_id, "_")
    /\ SplitN(server_id, "_", 1)[1] \in {"user", "env"}
    /\ PyInt(SplitN(server_id, "_", 1)[2]).ok
    /\ LET idx == PyInt(SplitN(server_id, "_", 1)[2]).val
           addressed == IF SplitN(server_id, "_", 1)[1] = "env" THEN envs
                        ELSE servers_of_user
       IN  ~(0 <= idx /\ idx < Len(addressed))

\* C29: a reference whose index is not a position of the addressed list,
\* negative indices included, resolves to nothing, and a delete confirmation
\* carrying it removes nothing.
C29_OutOfRangeNotFound ==
    [][ \A data \in ButtonData :
           ( /\ last'.kind = "button"
             /\ last'.raised # "TelegramError"
             /\ last'.data = data
             /\ Route(data) = "ssh_delete_confirm_"
             /\ OutOfRange(ServerIdOf(data), DictGetList(user_servers, last'.user),
                           env_servers) )
           => /\ ResolveServerById(ServerIdOf(data),
                                   DictGetList(user_servers, last'.user),
                                   env_servers) = NotResolved
              /\ user_servers' = user_servers
              /\ env_servers' = env_servers ]_vars


\* the labels of the operator's entries
LabelsOf(servers_dict) ==
    {servers_dict[ChatOwner][i].username \o "@" \o servers_dict[ChatOwner][i].host :
        i \in 1..Len(DictGetList(servers_dict, ChatOwner))}

\* C30: the record a delete confirmation removes is the record whose label the
\* prompt carrying the pressed button showed, whatever the operator did between
\* the prompt and the confirmation.
C30_RemovesShownRecord ==
    [][ \A i \in 1..Len(out) :
           ( /\ out[i].text = "confirm_delete"
             /\ out'[i] # out[i]
             /\ last'.data = out[i].buttons[1].data
             /\ user_servers' # user_servers )
           => LabelsOf(user_servers) \ LabelsOf(user_servers') = {out[i].args[1]}
      ]_vars



\* C31: a dispatched delete confirmation whose reference is a bare integer n
\* that resolves to an entry of the sender removes that entry, as the
\* reference user_n does, and the handler ends without an unhandled error.
C31_BareIntegerDeletes ==
    [][ \A data \in ButtonData :
           ( /\ last'.kind = "button"
             /\ last'.raised # "TelegramError"
             /\ last'.data = data
             /\ Route(data) = "ssh_delete_confirm_"
             /\ IsDigit(ServerIdOf(data))
             /\ PyInt(ServerIdOf(data)).val
                   < Len(DictGetList(user_servers, last'.user)) )
           => /\ last'.raised = ""
              /\ user_servers'
                    = PopServer(user_servers, last'.user,
                                DictGetList(user_servers, last'.user),
                                PyInt(ServerIdOf(data)).val + 1) ]_vars



\* the reference is user_i with i a position of the list: 0 <= i < Len(servers)
UserIndexInRange(server_id, servers) ==
    /\ StartsWith(server_id, "user_")
    /\ PyInt(From(server_id, 6)).ok
    /\ 0 <= PyInt(From(server_id, 6)).val
    /\ PyInt(From(server_id, 6)).val < Len(servers)

\* new is old without its element at 0-based index i, the others in order
WithoutIndex(old, new, i) ==
    /\ Len(new) = Len(old) - 1
    /\ \A k \in 1..Len(new) : new[k] = IF k <= i THEN old[k] ELSE old[k + 1]

\* C32: a dispatched delete confirmation for user index i, 0 <= i < n, removes
\* the sender's entry at index i and keeps the others in their order, the
\* sender's key leaves the registry with its last entry, every other operator's
\* list stays, and a delete prompt changes nothing in the registry; no
\* operator is ever mapped to an empty list.
C32_DeleteRemovesIndex ==
    [][ /\ \A u \in DOMAIN user_servers' : Len(user_servers'[u]) > 0
        /\ \A data \in ButtonData :
              ( /\ last'.kind = "button"
                /\ last'.raised # "TelegramError"
                /\ last'.data = data )
              => /\ ( /\ Route(data) = "ssh_delete_confirm_"
                      /\ UserIndexInRange(ServerIdOf(data),
                                          DictGetList(user_servers, last'.user)) )
                    => /\ WithoutIndex(DictGetList(user_servers, last'.user),
                                       DictGetList(user_servers', last'.user),
                                       PyInt(From(ServerIdOf(data), 6)).val)
                       /\ \A v \in Users \ {last'.user} :
                             DictGetList(user_servers', v)
                                = DictGetList(user_servers, v)
                       /\ env_servers' = env_servers
                 /\ Route(data) = "ssh_delete_"
                    => /\ user_servers' = user_servers
                       /\ env_servers' = env_servers ]_vars

\* C32 witness: the confirmation for user index 0 removed the first of two
\* entries of the sender, and the refreshed menu lists the one that is left
C32_Witness ==
    /\ Dispatched
    /\ last.data = "ssh_delete_confirm_user_0"
    /\ Len(out) = 2
    /\ out[1].text = "deleted"
    /\ Len(DictGetList(user_servers, last.user)) = 1



\* some command of the provisioning attempt just made ended with a non-zero
\* exit status
CommandFailed(cs) == \E k \in 1..Len(cs) : cs[k].result = "ExitStatus1"

\* C33: every entry of an operator has its public key as a line of the host's
\* authorized_keys, and a provisioning attempt in which a command failed on
\* the host after the connection was made reports the failure and adds no
\* entry.
C33_KeyPresentOrFailure ==
    [][ /\ \A u \in DOMAIN user_servers' :
              \A i \in 1..Len(user_servers'[u]) :
                 GrepQxF(authorized_keys'[user_servers'[u][i].host],
                         user_servers'[u][i].public_key)
        /\ CommandFailed(calls')
              => /\ user_servers' = user_servers
                 /\ out'[Len(out')].text = "install_failed" ]_vars



\* C34: the container a pressed button of the local list addresses is the
\* container whose name the button was rendered for, and the container a
\* pressed action button of the container card addresses is the container the
\* card shows.
C34_LocalTokenRoundTrip ==
    [][ \A i \in 1..Len(out[1].buttons) :
           ( /\ last'.kind = "button"
             /\ last'.data = out[1].buttons[i].data )
           => /\ ( /\ out[1].text = "containers"
                   /\ Route(last'.data) = "container_" )
                 => calls'[1].cmd = "get " \o out[1].buttons[i].label
              /\ ( /\ out[1].text = "container_info"
                   /\ Route(last'.data) = "action_" )
                 => calls'[1].cmd = out[1].buttons[i].label \o " " \o out[1].args[1]
      ]_vars



\* button_callback has a branch for the callback data, and the branch has a
\* handler for it
Routed(data) ==
    /\ CallbackRoute(data) # "none"
    /\ CallbackRoute(data) = "compose_"
          => Split(data, "_")[2] \in {"status", "start", "stop", "restart", "logs"}

\* C35: when an operator who has access presses a button of the message on
\* display, button_callback has a handler for the button's callback data.
C35_EmittedTokensRouted ==
    [][ \A i \in 1..Len(OnDisplay.buttons) :
           ( /\ last'.kind = "button"
             /\ last'.raised # "TelegramError"
             /\ last'.data = OnDisplay.buttons[i].data
             /\ ~NotAllowed(allowed_users, last'.user) )
           => Routed(last'.data) ]_vars

\* C36: with a non-empty allow-list, a command or a button press of an
\* operator who is not on it makes no call to the engine or to the compose
\* client whatever the callback data is, and once the press is answered the
\* only message rendered is the refusal.
C36_NotAllowedOnlyDenied ==
    [][ ( /\ last'.kind \in {"button", "command"}
          /\ NotAllowed(allowed_users, last'.user) )
        => /\ calls' = <<>>
           /\ last'.raised # "TelegramError" => out' = <<AccessDenied>> ]_vars

\* C36 witness: an operator who is not on the allow-list pressed the button of
\* a container on a list another operator had opened, and got the refusal
C36_Witness ==
    /\ allowed_users # {}
    /\ last.kind = "button"
    /\ last.user \notin allowed_users
    /\ last.data = "container_a1b2c3"
    /\ last.raised = ""
    /\ out = <<AccessDenied>>
    /\ calls = <<>>

=============================================================================
